---- MODULE Spec2Model ----
(***************************************************************************)
(* Session and resource-management layer of the Azure Synapse MCP server:  *)
(*   - ConnectionPool (src/src/utils/connection-pool.ts): keyed sessions,  *)
(*     in-flight creation promises and the TTL result cache;               *)
(*   - retryOperation (src/src/config/config.ts): retry with backoff;      *)
(*   - AzureAuthService (src/src/services/azure-auth.service.ts): token    *)
(*     cache.                                                              *)
(* Each component has its own specification over the shared variables:     *)
(* Spec (pool and result cache), RetrySpec / RetryFairSpec, AuthSpec.      *)
(***************************************************************************)
EXTENDS Integers, Sequences, FiniteSets, TLC

None == "none"

(***************************************************************************)
(* retryOperation                                                          *)
(***************************************************************************)
VARIABLES rMaxRetries, rBaseDelay, rAttempt, rPc, rInvocations, rOutcomes,
          rSleeps, rLastError, rRaised, rResult

retryVars == <<rMaxRetries, rBaseDelay, rAttempt, rPc, rInvocations,
               rOutcomes, rSleeps, rLastError, rRaised, rResult>>

\* Largest maxRetries argument explored.
MaxRetriesArg == 3

\* Default arguments of retryOperation.
DefaultMaxRetries == 3
DefaultBaseDelay == 1000

BaseDelays == {DefaultBaseDelay, 250}

\* HTTP statuses for which the HTTP client rejects (anything outside 2xx).
StatusCodes == {304, 400, 404, 499, 500, 503}

\* Errors the wrapped operation (makeRequest's closure) can raise: a
\* SynapseApiError built from an HTTP response, or the raw error rethrown
\* when there is no response (network failure, AuthenticationError).
SynapseApiErrors == [cls : {"SynapseApiError"}, statusCode : StatusCodes]
OtherErrors == [cls : {"NetworkError", "AuthenticationError"}, statusCode : {0}]
RetryErrors == SynapseApiErrors \cup OtherErrors

OkOutcome == [cls |-> "ok", statusCode |-> 200]
NoError == [cls |-> "none", statusCode |-> 0]

RECURSIVE Pow2(_)
Pow2(n) == IF n <= 0 THEN 1 ELSE 2 * Pow2(n - 1)

\* if (error instanceof SynapseApiError) { if (statusCode >= 400 && statusCode < 500) break; }
NonRetryableOff(error) ==
    /\ error.cls = "SynapseApiError"
    /\ error.statusCode > 400
    /\ error.statusCode < 500

NonRetryable(error) ==
    /\ error.cls = "SynapseApiError"
    /\ error.statusCode >= 400
    /\ error.statusCode < 500

\* const delay = baseDelay * Math.pow(2, attempt)
BackoffDelayLinear(baseDelay, attempt) == baseDelay * (attempt + 1)

BackoffDelay(baseDelay, attempt) == baseDelay * Pow2(attempt)

\* if (attempt === maxRetries) break;
LastAttemptEarly(attempt, maxRetries) == attempt + 1 >= maxRetries

LastAttempt(attempt, maxRetries) == attempt = maxRetries

RetryInit ==
    /\ rMaxRetries \in 0..MaxRetriesArg
    /\ rBaseDelay \in BaseDelays
    /\ rAttempt = 0
    /\ rPc = "loop"
    /\ rInvocations = 0
    /\ rOutcomes = <<>>
    /\ rSleeps = <<>>
    /\ rLastError = NoError
    /\ rRaised = NoError
    /\ rResult = 0

\* for (attempt ...; attempt <= maxRetries; ...) { try { return await operation();
\* (maxRetries >= 0 in every call explored, so the loop test never fails here.)
RetryInvoke ==
    /\ rPc = "loop"
    /\ rAttempt <= rMaxRetries
    /\ rPc' = "awaiting"
    /\ rInvocations' = rInvocations + 1
    /\ UNCHANGED <<rMaxRetries, rBaseDelay, rAttempt, rOutcomes, rSleeps,
                   rLastError, rRaised, rResult>>

\* The awaited operation resolves: return its value (named here by the
\* number of the invocation that produced it).
RetrySettleOk ==
    /\ rPc = "awaiting"
    /\ rOutcomes' = Append(rOutcomes, OkOutcome)
    /\ rPc' = "returned"
    /\ rResult' = rInvocations
    /\ UNCHANGED <<rMaxRetries, rBaseDelay, rAttempt, rInvocations, rSleeps,
                   rLastError, rRaised>>

\* The awaited operation rejects: the catch block.
RetrySettleError(error) ==
    /\ rPc = "awaiting"
    /\ rOutcomes' = Append(rOutcomes, error)
    /\ rLastError' = error
    /\ IF LastAttempt(rAttempt, rMaxRetries) \/ NonRetryable(error)
       THEN /\ rPc' = "thrown"
            /\ rRaised' = error
            /\ UNCHANGED rSleeps
       ELSE /\ rPc' = "sleeping"
            /\ rSleeps' = Append(rSleeps, BackoffDelay(rBaseDelay, rAttempt))
            /\ UNCHANGED rRaised
    /\ UNCHANGED <<rMaxRetries, rBaseDelay, rAttempt, rInvocations, rResult>>

\* The setTimeout fires: attempt++ and the loop continues.
RetryWake ==
    /\ rPc = "sleeping"
    /\ rAttempt' = rAttempt + 1
    /\ rPc' = "loop"
    /\ UNCHANGED <<rMaxRetries, rBaseDelay, rInvocations, rOutcomes, rSleeps,
                   rLastError, rRaised, rResult>>

\* The executor at rest with its default arguments (specifications of the
\* other components).
RetryInitIdle ==
    /\ rMaxRetries = DefaultMaxRetries
    /\ rBaseDelay = DefaultBaseDelay
    /\ rAttempt = 0
    /\ rPc = "loop"
    /\ rInvocations = 0
    /\ rOutcomes = <<>>
    /\ rSleeps = <<>>
    /\ rLastError = NoError
    /\ rRaised = NoError
    /\ rResult = 0

RetryDone == rPc \in {"returned", "thrown"}

(***************************************************************************)
(* AzureAuthService: token cache                                           *)
(***************************************************************************)
VARIABLES cachedToken, aNow, aCalls, acquisitions

authVars == <<cachedToken, aNow, aCalls, acquisitions>>

\* Number of getAccessToken / refreshToken calls explored.
MaxAuthCalls == 2
\* Clock (ms): advances by AuthTick up to MaxAuthTime.
AuthTick == 150000
MaxAuthTime == 600000

\* private tokenExpirationBuffer = 5 * 60 * 1000
tokenExpirationBuffer == 5 * 60 * 1000

AuthCallIds == 1..MaxAuthCalls

\* expiresOnTimestamp values a credential can hand back (0: no declared expiry).
ExpiryChoices == {0, 300000, 450000, 900000}

\* this.cachedToken = null; issued tokens are numbered from 1.
NoToken == [token |-> 0, expiresOnTimestamp |-> 0]

IdleAuthCall ==
    [pc |-> "idle", op |-> None, validAtCall |-> FALSE, acquired |-> FALSE,
     fromCache |-> FALSE, token |-> 0, retExp |-> 0, retAt |-> 0,
     error |-> None]

\* isTokenValid(token): false without expiresOnTimestamp, else
\* expiresOnTimestamp - Date.now() > tokenExpirationBuffer
isTokenValidNoBuffer(token, now) ==
    IF token.expiresOnTimestamp = 0
    THEN FALSE
    ELSE token.expiresOnTimestamp - now > 0

isTokenValidAtBuffer(token, now) ==
    IF token.expiresOnTimestamp = 0
    THEN FALSE
    ELSE token.expiresOnTimestamp - now >= tokenExpirationBuffer

isTokenValid(token, now) ==
    IF token.expiresOnTimestamp = 0
    THEN FALSE
    ELSE token.expiresOnTimestamp - now > tokenExpirationBuffer

\* catch (error) { this.cachedToken = null; ... }
CacheOnFailureKept(token) == token

CacheOnFailure(token) == NoToken

\* catch: every failure is rethrown as AuthenticationError.
ErrorOnFailure(cause) == "AuthenticationError"

\* What the claims call a valid cached token: present, with a declared
\* expiry that is more than five minutes (300000 ms) away.
ValidCachedToken(cache, now) ==
    /\ cache.token # 0
    /\ cache.expiresOnTimestamp # 0
    /\ cache.expiresOnTimestamp - now > 300000

AuthInit ==
    /\ cachedToken = NoToken
    /\ aNow = 0
    /\ aCalls = [c \in AuthCallIds |-> IdleAuthCall]
    /\ acquisitions = 0

\* Calls are numbered in the order they are issued.
NextAuthCall(c) ==
    /\ aCalls[c].pc = "idle"
    /\ \A d \in AuthCallIds : d < c => aCalls[d].pc # "idle"

\* The synchronous part of getAccessToken, up to `await credential.getToken`.
\* cache is the value of this.cachedToken on entry.
EnterGetAccessToken(c, op, cache) ==
    LET valid == ValidCachedToken(cache, aNow) IN
    IF cache # NoToken /\ isTokenValid(cache, aNow)
    THEN /\ aCalls' = [aCalls EXCEPT ![c] =
                [@ EXCEPT !.pc = "returned", !.op = op, !.validAtCall = valid,
                          !.fromCache = TRUE, !.token = cache.token,
                          !.retExp = cache.expiresOnTimestamp, !.retAt = aNow]]
         /\ UNCHANGED acquisitions
    ELSE /\ aCalls' = [aCalls EXCEPT ![c] =
                [@ EXCEPT !.pc = "awaiting", !.op = op, !.validAtCall = valid,
                          !.acquired = TRUE]]
         /\ acquisitions' = acquisitions + 1

GetAccessToken(c) ==
    /\ NextAuthCall(c)
    /\ EnterGetAccessToken(c, "getAccessToken", cachedToken)
    /\ UNCHANGED <<cachedToken, aNow>>

\* refreshToken: this.cachedToken = null; return this.getAccessToken();
RefreshToken(c) ==
    /\ NextAuthCall(c)
    /\ cachedToken' = NoToken
    /\ EnterGetAccessToken(c, "refreshToken", NoToken)
    /\ UNCHANGED aNow

\* credential.getToken resolves with a token: cache it and return it.
AcquireSucceeds(c, expiry) ==
    /\ aCalls[c].pc = "awaiting"
    /\ cachedToken' = [token |-> c, expiresOnTimestamp |-> expiry]
    /\ aCalls' = [aCalls EXCEPT ![c] =
            [@ EXCEPT !.pc = "returned", !.token = c,
                      !.retExp = expiry, !.retAt = aNow]]
    /\ UNCHANGED <<aNow, acquisitions>>

\* credential.getToken rejects (an Error or some other value) or resolves
\* with null: the catch block clears the cache and throws.
AcquireFails(c, cause) ==
    /\ aCalls[c].pc = "awaiting"
    /\ cachedToken' = CacheOnFailure(cachedToken)
    /\ aCalls' = [aCalls EXCEPT ![c] =
            [@ EXCEPT !.pc = "failed", !.error = ErrorOnFailure(cause)]]
    /\ UNCHANGED <<aNow, acquisitions>>

\* clearCache(): this.cachedToken = null
AuthClearCache ==
    /\ cachedToken # NoToken
    /\ cachedToken' = NoToken
    /\ UNCHANGED <<aNow, aCalls, acquisitions>>

AuthTime ==
    /\ aNow + AuthTick <= MaxAuthTime
    /\ aNow' = aNow + AuthTick
    /\ UNCHANGED <<cachedToken, aCalls, acquisitions>>

FailureCauses == {"Error", "NonError", "NullResponse"}


(***************************************************************************)
(* TenantManager: the tenant registry                                      *)
(***************************************************************************)
VARIABLES configFile, environ, tmPc, tenants, credentials, defaultTenant,
          registryOps

tenantVars ==
    <<configFile, environ, tmPc, tenants, credentials, defaultTenant,
      registryOps>>

\* Number of addTenant / removeTenant / setDefaultTenant calls explored.
MaxRegistryOps == 2

\* null, as the value of defaultTenant.
Null == "null"

\* JavaScript truthiness of an optional string: undefined, null and the
\* empty string are falsy.
Truthy(x) == x # None /\ x # Null /\ x # ""

\* Names under which tenants are registered, and names callers pass
\* (None: the argument is omitted).
TenantNames == {"default", "acme", ""}

NameArgs == TenantNames \cup {None, "ghost"}

\* One entry of sqlPools.
Pool(type, connectionString) ==
    [type |-> type, connectionString |-> connectionString]

\* config.credentials of the configurations explored: a complete service
\* principal in the structured source, a managed identity in the programmatic
\* calls, type 'default' for the environment tenant.
Credentials(origin) ==
    [type |-> IF origin = "file" THEN "service_principal"
              ELSE IF origin = "api" THEN "managed_identity"
              ELSE IF origin = "env" THEN "default"
              ELSE None]

\* The credential addTenant creates for a configuration.
Credential(config) ==
    IF config.credentials.type = "service_principal"
    THEN "ClientSecretCredential"
    ELSE IF config.credentials.type = "managed_identity"
    THEN "ManagedIdentityCredential"
    ELSE "DefaultAzureCredential"

\* credentials.get(name) of a name without credential.
NoCredential == "none"

\* A TenantConfig: its name, its workspace and its pool descriptors in list
\* order; origin tells the structured source from the environment.
Tenant(name, origin, sqlPools) ==
    [name |-> name, origin |-> origin, workspaceName |-> "ws",
     sqlPools |-> sqlPools, credentials |-> Credentials(origin)]

\* tenants.get(name) of a name that is not registered.
NoTenant == Tenant(None, None, <<>>)

FileDefault == Tenant("default", "file", << Pool("serverless", "cs1") >>)

\* No serverless descriptor.
FileAcme == Tenant("acme", "file", << Pool("dedicated", "cs2") >>)

\* Two descriptors of one kind.
TwoPools ==
    Tenant("acme", "api",
           << Pool("dedicated", "cs2"), Pool("serverless", "cs2"),
              Pool("serverless", "cs3") >>)

Unnamed == Tenant("", "api", << Pool("serverless", "cs3") >>)

TenantConfigs == {FileDefault, FileAcme, TwoPools, Unnamed}

\* The configurations that reach addTenant from a caller.
ApiConfigs == { config \in TenantConfigs : config.origin = "api" }

\* The structured configuration source: absent, unreadable, or parsed into
\* its tenants (in order) and its defaultTenant.
NoFile ==
    [exists |-> FALSE, parses |-> FALSE, tenants |-> <<>>,
     defaultTenant |-> None]

File(fileTenants, fileDefaultTenant) ==
    [exists |-> TRUE, parses |-> TRUE, tenants |-> fileTenants,
     defaultTenant |-> fileDefaultTenant]

ConfigFiles ==
    { NoFile,
      [NoFile EXCEPT !.exists = TRUE],
      File(<< FileDefault >>, None),
      File(<< FileDefault, FileAcme >>, "acme"),
      File(<< FileDefault >>, "ghost"),
      File(<< FileAcme >>, "") }

\* process.env: AZURE_SYNAPSE_WORKSPACE and the serverless pool variables.
NoEnviron == [workspace |-> None, serverless |-> FALSE, connection |-> None]

Environs ==
    { NoEnviron,
      [workspace |-> "ws", serverless |-> TRUE, connection |-> "cs9"],
      [workspace |-> "ws", serverless |-> TRUE, connection |-> None] }

\* parseSqlPoolsFromEnv(), for the serverless pool
parseSqlPoolsFromEnv(env) ==
    IF env.serverless
    THEN << Pool("serverless",
                 IF Truthy(env.connection) THEN env.connection ELSE "") >>
    ELSE <<>>

EnvTenant(env) == Tenant("default", "env", parseSqlPoolsFromEnv(env))

NoTenants == [n \in TenantNames |-> NoTenant]

NoCredentials == [n \in TenantNames |-> NoCredential]

\* this.credentials.set(name, credential)
CredentialsSet(map, name, credential) == [map EXCEPT ![name] = credential]

\* this.tenants.set(name, config)
TenantsSet(map, name, config) == [map EXCEPT ![name] = config]

\* for (const tenant of config.tenants || []) this.addTenant(tenant.name, tenant)
RECURSIVE AddFileTenants(_, _)
AddFileTenants(map, fileTenants) ==
    IF fileTenants = <<>> THEN map
    ELSE AddFileTenants(TenantsSet(map, Head(fileTenants).name, Head(fileTenants)),
                        Tail(fileTenants))

\* The credentials the same loop registers.
RECURSIVE AddFileCredentials(_, _)
AddFileCredentials(map, fileTenants) ==
    IF fileTenants = <<>> THEN map
    ELSE AddFileCredentials(
             CredentialsSet(map, Head(fileTenants).name,
                            Credential(Head(fileTenants))),
             Tail(fileTenants))

\* loadConfiguration(), first half: the structured source.
LoadedFromFile(file) ==
    IF file.exists /\ file.parses
    THEN [tenants |-> AddFileTenants(NoTenants, file.tenants),
          credentials |-> AddFileCredentials(NoCredentials, file.tenants),
          defaultTenant |-> IF Truthy(file.defaultTenant)
                            THEN file.defaultTenant ELSE Null]
    ELSE [tenants |-> NoTenants, credentials |-> NoCredentials,
          defaultTenant |-> Null]

\* loadConfiguration(), second half: the environment.
LoadedFromEnv(loaded, env) ==
    IF Truthy(env.workspace)
    THEN [tenants |-> TenantsSet(loaded.tenants, "default", EnvTenant(env)),
          credentials |-> CredentialsSet(loaded.credentials, "default",
                                         Credential(EnvTenant(env))),
          defaultTenant |-> IF ~Truthy(loaded.defaultTenant)
                            THEN "default" ELSE loaded.defaultTenant]
    ELSE loaded

Loaded(file, env) == LoadedFromEnv(LoadedFromFile(file), env)

\* this.tenants.has(name)
TenantsHas(name) == name \in TenantNames /\ tenants[name] # NoTenant

\* this.tenants.get(name)
TenantsGet(name) == IF name \in TenantNames THEN tenants[name] ELSE NoTenant

\* name || this.defaultTenant || 'default'
TenantName(name) ==
    IF Truthy(name) THEN name
    ELSE IF Truthy(defaultTenant) THEN defaultTenant
    ELSE "default"

\* getTenant(name?)
getTenant(name) == TenantsGet(TenantName(name))

\* Mutation of Find: the last descriptor of the type.
RECURSIVE FindLast(_, _)
FindLast(sqlPools, poolType) ==
    IF sqlPools = <<>> THEN None
    ELSE IF FindLast(Tail(sqlPools), poolType) # None
         THEN FindLast(Tail(sqlPools), poolType)
    ELSE IF Head(sqlPools).type = poolType THEN Head(sqlPools).connectionString
    ELSE None

\* tenant.sqlPools.find(p => p.type === poolType)?.connectionString
RECURSIVE Find(_, _)
Find(sqlPools, poolType) ==
    IF sqlPools = <<>> THEN None
    ELSE IF Head(sqlPools).type = poolType THEN Head(sqlPools).connectionString
    ELSE Find(Tail(sqlPools), poolType)

\* getConnectionString(tenantName?, poolType): undefined (None) when no
\* tenant resolves or it has no pool of the type.
getConnectionString(tenantName, poolType) ==
    IF getTenant(tenantName) = NoTenant THEN None
    ELSE Find(getTenant(tenantName).sqlPools, poolType)

\* The process before `new TenantManager()`.
TenantInit ==
    /\ configFile \in ConfigFiles
    /\ environ \in Environs
    /\ tmPc = "new"
    /\ tenants = NoTenants
    /\ credentials = NoCredentials
    /\ defaultTenant = Null
    /\ registryOps = 0

\* A process without configuration file and environment.
TenantInitIdle ==
    /\ configFile = NoFile
    /\ environ = NoEnviron
    /\ tmPc = "new"
    /\ tenants = NoTenants
    /\ credentials = NoCredentials
    /\ defaultTenant = Null
    /\ registryOps = 0

\* constructor(): this.loadConfiguration()
LoadConfiguration ==
    /\ tmPc = "new"
    /\ tmPc' = "loaded"
    /\ tenants' = Loaded(configFile, environ).tenants
    /\ credentials' = Loaded(configFile, environ).credentials
    /\ defaultTenant' = Loaded(configFile, environ).defaultTenant
    /\ UNCHANGED <<configFile, environ, registryOps>>

\* addTenant(name, config)
AddTenant(name, config) ==
    /\ tmPc = "loaded"
    /\ registryOps < MaxRegistryOps
    /\ registryOps' = registryOps + 1
    /\ tenants' = TenantsSet(tenants, name, config)
    /\ credentials' = CredentialsSet(credentials, name, Credential(config))
    /\ UNCHANGED <<configFile, environ, tmPc, defaultTenant>>

\* setDefaultTenant(name): throws when the tenant is not registered
SetDefaultTenant(name) ==
    /\ tmPc = "loaded"
    /\ registryOps < MaxRegistryOps
    /\ registryOps' = registryOps + 1
    /\ defaultTenant' = IF TenantsHas(name) THEN name ELSE defaultTenant
    /\ UNCHANGED <<configFile, environ, tmPc, tenants, credentials>>

\* removeTenant(name)
RemoveTenant(name) ==
    /\ tmPc = "loaded"
    /\ registryOps < MaxRegistryOps
    /\ registryOps' = registryOps + 1
    /\ tenants' = IF name \in TenantNames
                  THEN TenantsSet(tenants, name, NoTenant) ELSE tenants
    /\ credentials' = IF name \in TenantNames
                      THEN CredentialsSet(credentials, name, NoCredential)
                      ELSE credentials
    /\ defaultTenant' = IF defaultTenant = name THEN Null ELSE defaultTenant
    /\ UNCHANGED <<configFile, environ, tmPc>>


(***************************************************************************)
(* ConnectionPool: sessions, in-flight creations and the result cache      *)
(***************************************************************************)
VARIABLES connections, connectionPromises, sessions, tasks, cache, now,
          completions, lastDone, lastGot, lastCall, closers, lastClosed,
          lastFailed

\* The calls of closeAll and the outcome of the one that completed last.
closeVars == <<closers, lastClosed>>

poolVars == <<connections, connectionPromises, sessions, tasks, cache, now,
              completions, lastDone, lastGot, lastCall, closeVars, lastFailed>>

\* Number of closeAll calls explored, and of executeSqlQuery calls made
\* around them.
MaxClosers == 2
MaxCloseTasks == 2
\* Number of execute_sql_query calls explored with the tenant registry.
MaxSqlTasks == 2

\* Number of executeSqlQuery calls and of rows per result explored.
MaxTasks == 3
MaxRows == 1
\* Clock (seconds): advances by CacheTick up to MaxNow.
CacheTick == 300
MaxNow == 600

\* new NodeCache({ stdTTL: parseInt(process.env.CACHE_TTL || '300'), ... })
stdTTL == 300

TaskIds == 1..MaxTasks
CloserIds == 1..MaxClosers
CloseTaskIds == 1..MaxCloseTasks
SqlTaskIds == 1..MaxSqlTasks
\* Every session is created by some call.
SessionIds == 1..MaxTasks

\* Arguments of the SQL tool calls explored.  Names are sequences of
\* dash-free segments, so that "a-b" is <<"a", "b">>.
OneRequest ==
    [ord |-> 1, connectionString |-> "cs1", workspace |-> <<"ws">>,
     database |-> <<"db1">>, poolType |-> "serverless"]

Requests ==
    { OneRequest,
      [ord |-> 2, connectionString |-> "cs1", workspace |-> <<"ws">>,
       database |-> <<"db2">>, poolType |-> "serverless"] }

\* Statements: query text and the parameters object (its entries in
\* insertion order; <<>> is both `undefined` and {}).
Statements ==
    { [query |-> "SELECT 1", parameters |-> <<>>],
      [query |-> "SELECT 1", parameters |-> << <<"id", 1>> >>] }

OneStatement == [query |-> "SELECT 1", parameters |-> <<>>]
NoStatement == [query |-> "", parameters |-> <<>>]

\* The statements the SQL operations build, for one table and one
\* procedure of schema dbo; each is passed to executeQuery without
\* parameters.
SchemaStatement == [query |-> "schemaQuery", parameters |-> <<>>]
StatsStatement == [query |-> "statsQuery", parameters |-> <<>>]
ListTablesStatement == [query |-> "listTablesQuery", parameters |-> <<>>]
TableDefStatement == [query |-> "tableDefQuery", parameters |-> <<>>]
CreateStatement ==
    [query |-> "CREATE PROCEDURE [dbo].[p] AS SELECT 1", parameters |-> <<>>]
AlterStatement ==
    [query |-> "ALTER PROCEDURE [dbo].[p] AS SELECT 1", parameters |-> <<>>]
ExecStatement == [query |-> "EXEC [dbo].[p]", parameters |-> <<>>]

OperationStatements ==
    { SchemaStatement, StatsStatement, ListTablesStatement,
      TableDefStatement, CreateStatement, AlterStatement, ExecStatement }

\* Every statement that reaches executeQuery.
AllStatements == Statements \cup OperationStatements

\* getConnectionKey: `${workspace}-${database}-${poolType}`
getConnectionKey(workspace, database, poolType) ==
    workspace \o database \o <<poolType>>

RequestKey(req) == getConnectionKey(req.workspace, req.database, req.poolType)

\* The keys of the two maps: those of Requests, the key of the same call
\* naming a second workspace, and the key of the dedicated pool.
Keys ==
    { RequestKey(req) : req \in Requests } \cup
    { getConnectionKey(<<"other">>, OneRequest.database, OneRequest.poolType),
      getConnectionKey(OneRequest.workspace, OneRequest.database, "dedicated") }

\* const cacheKey = `${query}-${JSON.stringify(parameters || {})}`
cacheKeyNoParameters(query, parameters) == <<query, <<>> >>

cacheKey(query, parameters) == <<query, parameters>>

CacheKeys == { cacheKey(st.query, st.parameters) : st \in AllStatements }

\* A NodeCache entry: the rows and the expiry time t; absent when t < 0.
NoEntry == [rows |-> <<>>, t |-> -1]

\* cache.set(key, value): t = now + stdTTL
NewEntry(rows, time) == [rows |-> rows, t |-> time + stdTTL]

\* cache.get(key): an entry is served unless it is absent or t < now.
EntryLive(entry, time) == entry # NoEntry /\ ~(entry.t < time)

NoCompletion == [rows |-> <<>>, at |-> -1]

\* The most recent completion with the pool key of the session it ran on.
NoLastDone == [rows |-> <<>>, at |-> -1, key |-> <<>>]

UnbornSession ==
    [key |-> <<>>, connectionString |-> None, state |-> "UNBORN",
     settled |-> "pending", endPending |-> FALSE]

\* One executeSqlQuery call.  connectionString, key, initiator and awaiting
\* are the argument and the locals of getConnection, during the creation that was in flight when it was
\* called; conn is the session it returned; st and results belong to
\* executeQuery.  A call that has returned keeps only its outcome.
IdleTask ==
    [pc |-> "idle", key |-> <<>>, connectionString |-> None,
     st |-> NoStatement, initiator |-> FALSE,
     awaiting |-> 0, during |-> 0, conn |-> 0, results |-> <<>>]

Returned(outcome) == [IdleTask EXCEPT !.pc = outcome]

\* The most recent return of getConnection: the caller, the connection
\* string it passed, the creation that
\* was in flight when it called (0: none) and the session it received
\* (0: the call failed).
NoGot == [task |-> 0, connectionString |-> None, during |-> 0, conn |-> 0]

\* The most recent entry to executeQuery: the caller, the pool key of its
\* session, its statement, whether it was answered from the cache, whether
\* execSql was called, the rows it was answered with, the pool key of the
\* session whose execution stored them (from), and what the history of
\* completions says about it (see Window).
NoCall ==
    [task |-> 0, key |-> <<>>, st |-> NoStatement, hit |-> FALSE,
     submitted |-> FALSE, rows |-> <<>>, from |-> <<>>,
     expectHit |-> FALSE, expectRows |-> <<>>, agree |-> TRUE]

\* One closeAll call: waiting holds the sessions whose 'end' listener of this
\* call has not fired yet, openAtCall the sessions that were open when it
\* was called, closingAtCall the sessions of the map that were already
\* closed then.
IdleCloser ==
    [pc |-> "idle", waiting |-> {}, openAtCall |-> {}, closingAtCall |-> {}]

\* The most recent completion of closeAll: the sessions that were open at
\* its call and are still open, what getConnectionStats() reports, and the
\* sessions whose creation was in flight at the completion.
NoClosed ==
    [closer |-> 0, stillOpen |-> {}, closing |-> {}, activeConnections |-> 0,
     cachedQueries |-> 0, creating |-> {}]

\* The most recent request callback with an error: the caller, the number of
\* rows that had arrived, and whether its fingerprint had a cache entry.
NoFailed == [task |-> 0, rows |-> 0, cached |-> FALSE]

Init ==
    /\ lastFailed = NoFailed
    /\ closers = [c \in CloserIds |-> IdleCloser]
    /\ lastClosed = NoClosed
    /\ connections = [k \in Keys |-> 0]
    /\ connectionPromises = [k \in Keys |-> 0]
    /\ sessions = [s \in SessionIds |-> UnbornSession]
    /\ tasks = [t \in TaskIds |-> IdleTask]
    /\ cache = [ck \in CacheKeys |-> NoEntry]
    /\ now = 0
    /\ completions = [st \in AllStatements |-> {}]
    /\ lastDone = [st \in AllStatements |-> NoLastDone]
    /\ lastGot = NoGot
    /\ lastCall = NoCall

\* The pool after getConnection has succeeded once for each request: one
\* LOGGED_IN session per key.
EstablishedSession(s) ==
    IF \E req \in Requests : req.ord = s
    THEN LET req == CHOOSE r \in Requests : r.ord = s IN
         [UnbornSession EXCEPT !.key = RequestKey(req),
                               !.connectionString = req.connectionString,
                               !.state = "LOGGED_IN", !.settled = "resolved"]
    ELSE UnbornSession

CacheInit ==
    /\ lastFailed = NoFailed
    /\ closers = [c \in CloserIds |-> IdleCloser]
    /\ lastClosed = NoClosed
    /\ sessions = [s \in SessionIds |-> EstablishedSession(s)]
    /\ connections = [k \in Keys |->
            IF \E r \in Requests : RequestKey(r) = k
            THEN (CHOOSE r \in Requests : RequestKey(r) = k).ord
            ELSE 0]
    /\ connectionPromises = [k \in Keys |-> 0]
    /\ tasks = [t \in TaskIds |-> IdleTask]
    /\ cache = [ck \in CacheKeys |-> NoEntry]
    /\ now = 0
    /\ completions = [st \in AllStatements |-> {}]
    /\ lastDone = [st \in AllStatements |-> NoLastDone]
    /\ lastGot = NoGot
    /\ lastCall = NoCall

\* Continuations that run before the event loop takes the next I/O or timer
\* event: a task that holds a session and has not yet called executeQuery,
\* a task awaiting a creation promise that has already settled, or a
\* closeAll whose close confirmations have all arrived.
ContinuationsPending ==
    \E t \in TaskIds :
        \/ tasks[t].pc = "haveConn"
        \/ /\ tasks[t].pc = "awaitConn"
           /\ sessions[tasks[t].awaiting].settled # "pending"

MicrotasksPending ==
    \/ ContinuationsPending
    \/ \E c \in CloserIds :
           closers[c].pc = "awaiting" /\ closers[c].waiting = {}

\* A closed session emits 'end' on the next tick of the event loop, before
\* any I/O or timer event is taken.
TicksPending == \E s \in SessionIds : sessions[s].endPending

NextTask(t) ==
    /\ tasks[t].pc = "idle"
    /\ \A u \in TaskIds : u < t => tasks[u].pc # "idle"

FreshSession(s) ==
    /\ sessions[s].state = "UNBORN"
    /\ \A r \in SessionIds : r < s => sessions[r].state # "UNBORN"

\* existingConnection && existingConnection.state === STATE.LOGGED_IN
Healthy(s) == s # 0 /\ sessions[s].state = "LOGGED_IN"

\* History of the successful executions: completions[st] holds the rows and
\* completion time of every execution of statement st completed since the
\* last flush, lastDone[st] the most recent of them.  Window(st) are those
\* whose entry would still be within its TTL (300 s).  A call records on
\* entry to executeQuery whether the most recent completion is among them
\* (expectHit) and its rows (expectRows), and whether the cache serves the
\* rows of every one of them (agree).
Window(st) == { x \in completions[st] : now <= x.at + 300 }

\* executeSqlQuery up to its first suspension: getConnectionString has
\* produced req.connectionString, then getConnection(...) runs to its first
\* await or return.
StartQuery(t, req, st) ==
    LET key == RequestKey(req)
        base == [tasks[t] EXCEPT !.key = key,
                                 !.connectionString = req.connectionString,
                                 !.st = st,
                                 !.during = connectionPromises[key]]
    IN
    /\ NextTask(t)
    /\ IF Healthy(connections[key])
       THEN /\ tasks' = [tasks EXCEPT ![t] =
                   [base EXCEPT !.pc = "haveConn", !.conn = connections[key]]]
            /\ lastGot' = [task |-> t,
                           connectionString |-> req.connectionString,
                           during |-> connectionPromises[key],
                           conn |-> connections[key]]
            /\ UNCHANGED <<connectionPromises, sessions>>
       ELSE IF connectionPromises[key] # 0
       THEN /\ tasks' = [tasks EXCEPT ![t] =
                   [base EXCEPT !.pc = "awaitConn",
                                !.awaiting = connectionPromises[key]]]
            /\ UNCHANGED <<connectionPromises, sessions, lastGot>>
       ELSE \E s \in SessionIds :
            /\ FreshSession(s)
            /\ sessions' = [sessions EXCEPT ![s] =
                   [UnbornSession EXCEPT !.key = key,
                        !.connectionString = req.connectionString,
                        !.state = "CONNECTING"]]
            /\ connectionPromises' = [connectionPromises EXCEPT ![key] = s]
            /\ tasks' = [tasks EXCEPT ![t] =
                   [base EXCEPT !.pc = "awaitConn", !.awaiting = s,
                                !.initiator = TRUE]]
            /\ UNCHANGED lastGot
    /\ UNCHANGED <<connections, cache, now, completions, lastDone, lastCall>>
    /\ UNCHANGED closeVars
    /\ UNCHANGED lastFailed

\* The tenant arguments of the execute_sql_query calls explored; workspace,
\* database and pool type are those of OneRequest.
TenantArgs == {None, "default", "acme"}

SqlParams ==
    { [workspace |-> OneRequest.workspace, database |-> OneRequest.database,
       poolType |-> OneRequest.poolType, tenant |-> tenant] :
      tenant \in TenantArgs }

\* executeSqlQuery(params) up to its first suspension or its return:
\* without a connection string it throws, and the catch block returns the
\* failure payload; with one it calls getConnection.
ExecuteSqlQuery(t, params, st) ==
    LET connectionString ==
            getConnectionString(params.tenant, params.poolType)
    IN
    /\ tmPc = "loaded"
    /\ IF ~Truthy(connectionString)
       THEN /\ NextTask(t)
            /\ tasks' = [tasks EXCEPT ![t] = Returned("failed")]
            /\ UNCHANGED <<connections, connectionPromises, sessions, cache,
                           now, completions, lastDone, lastGot, lastCall,
                           closeVars, lastFailed>>
       ELSE StartQuery(t, [connectionString |-> connectionString,
                           workspace |-> params.workspace,
                           database |-> params.database,
                           poolType |-> params.poolType], st)

\* connection.on('connect', err => err ? reject(err) : resolve(connection));
\* a failed session then ends.
SessionConnect(s, ok) ==
    /\ ~MicrotasksPending /\ ~TicksPending
    /\ sessions[s].state = "CONNECTING"
    /\ sessions' = [sessions EXCEPT ![s] =
           IF ok THEN [@ EXCEPT !.state = "LOGGED_IN", !.settled = "resolved"]
                 ELSE [@ EXCEPT !.state = "FINAL", !.settled = "rejected",
                                !.endPending = TRUE]]
    /\ UNCHANGED <<connections, connectionPromises, tasks, cache, now,
                   completions, lastDone, lastGot, lastCall>>
    /\ UNCHANGED closeVars
    /\ UNCHANGED lastFailed

\* Mutation of PromisesOnFailure: the entry of a failed creation is kept.
PromisesOnFailureKept(key) == connectionPromises

\* catch (error) { this.connectionPromises.delete(key); throw error; }
PromisesOnFailure(key) == [connectionPromises EXCEPT ![key] = 0]

\* getConnection after `await connectionPromise` (the caller that started
\* the creation): publish the session, or drop the promise and rethrow;
\* executeSqlQuery turns the error into a failure payload.
ResumeInitiator(t) ==
    LET s == tasks[t].awaiting
        key == tasks[t].key
    IN
    /\ tasks[t].pc = "awaitConn"
    /\ tasks[t].initiator
    /\ sessions[s].settled # "pending"
    /\ IF sessions[s].settled = "resolved"
       THEN /\ connections' = [connections EXCEPT ![key] = s]
            /\ connectionPromises' = [connectionPromises EXCEPT ![key] = 0]
            /\ tasks' = [tasks EXCEPT ![t] =
                   [@ EXCEPT !.pc = "haveConn", !.conn = s, !.awaiting = 0,
                             !.initiator = FALSE]]
            /\ lastGot' = [task |-> t,
                           connectionString |-> tasks[t].connectionString,
                           during |-> tasks[t].during, conn |-> s]
       ELSE /\ UNCHANGED connections
            /\ connectionPromises' = PromisesOnFailure(key)
            /\ tasks' = [tasks EXCEPT ![t] = Returned("failed")]
            /\ lastGot' = [task |-> t,
                           connectionString |-> tasks[t].connectionString,
                           during |-> tasks[t].during, conn |-> 0]
    /\ UNCHANGED <<sessions, cache, now, completions, lastDone, lastCall>>
    /\ UNCHANGED closeVars
    /\ UNCHANGED lastFailed

\* A caller that returned the existing promise: its reaction was registered
\* after the initiator's, so it resumes after the initiator.
ResumeCoalesced(t) ==
    LET s == tasks[t].awaiting IN
    /\ tasks[t].pc = "awaitConn"
    /\ ~tasks[t].initiator
    /\ sessions[s].settled # "pending"
    /\ \A u \in TaskIds :
           ~(tasks[u].pc = "awaitConn" /\ tasks[u].initiator
             /\ tasks[u].awaiting = s)
    /\ tasks' = [tasks EXCEPT ![t] =
           IF sessions[s].settled = "resolved"
           THEN [@ EXCEPT !.pc = "haveConn", !.conn = s, !.awaiting = 0]
           ELSE Returned("failed")]
    /\ lastGot' = [task |-> t,
                   connectionString |-> tasks[t].connectionString,
                   during |-> tasks[t].during,
                   conn |-> IF sessions[s].settled = "resolved" THEN s ELSE 0]
    /\ UNCHANGED <<connections, connectionPromises, sessions, cache, now,
                   completions, lastDone, lastCall>>
    /\ UNCHANGED closeVars
    /\ UNCHANGED lastFailed

\* executeQuery(connection, query, parameters) up to its return or to
\* connection.execSql(request), for call t on session s with statement st.
\* A session that is not LOGGED_IN refuses the request through the request
\* callback at once.
ExecuteQueryOn(t, s, st) ==
    LET ck == cacheKey(st.query, st.parameters)
        w == Window(st)
        last == [rows |-> lastDone[st].rows, at |-> lastDone[st].at]
        live == EntryLive(cache[ck], now)
        call == [NoCall EXCEPT
                     !.task = t,
                     !.key = sessions[s].key,
                     !.st = st,
                     !.expectHit = last \in w,
                     !.expectRows = IF last \in w THEN last.rows ELSE <<>>,
                     !.agree = \A x \in w : live /\ cache[ck].rows = x.rows]
    IN
    /\ IF live
       THEN /\ tasks' = [tasks EXCEPT ![t] = Returned("done")]
            /\ lastCall' = [call EXCEPT !.hit = TRUE, !.rows = cache[ck].rows,
                                        !.from = lastDone[st].key]
            /\ UNCHANGED sessions
       ELSE IF sessions[s].state = "LOGGED_IN"
       THEN /\ tasks' = [tasks EXCEPT ![t] =
                   [@ EXCEPT !.pc = "executing", !.conn = s, !.st = st,
                             !.key = <<>>, !.during = 0,
                             !.connectionString = None]]
            /\ lastCall' = [call EXCEPT !.submitted = TRUE]
            /\ sessions' = [sessions EXCEPT ![s].state = "SENT_CLIENT_REQUEST"]
       ELSE /\ tasks' = [tasks EXCEPT ![t] = Returned("failed")]
            /\ lastCall' = [call EXCEPT !.submitted = TRUE]
            /\ UNCHANGED sessions
    /\ UNCHANGED <<connections, connectionPromises, cache, now, completions,
                   lastDone, lastGot>>
    /\ UNCHANGED closeVars
    /\ UNCHANGED lastFailed

\* executeSqlQuery after `await getConnection(...)`: executeQuery on the
\* session it was given.
ExecuteQuery(t) ==
    /\ tasks[t].pc = "haveConn"
    /\ ExecuteQueryOn(t, tasks[t].conn, tasks[t].st)

\* executeQuery called by a holder of session s.
CallExecuteQuery(t, s, st) ==
    /\ NextTask(t)
    /\ sessions[s].state # "UNBORN"
    /\ ExecuteQueryOn(t, s, st)

\* request.on('row', ...): results.push(row)
RequestRow(t) ==
    /\ ~MicrotasksPending /\ ~TicksPending
    /\ tasks[t].pc = "executing"
    /\ Len(tasks[t].results) < MaxRows
    /\ tasks' = [tasks EXCEPT ![t].results = Append(@, "row")]
    /\ UNCHANGED <<connections, connectionPromises, sessions, cache, now,
                   completions, lastDone, lastGot, lastCall>>
    /\ UNCHANGED closeVars
    /\ UNCHANGED lastFailed

\* Request callback without error: cache.set(cacheKey, results); resolve.
RequestSucceeds(t) ==
    LET st == tasks[t].st
        ck == cacheKey(st.query, st.parameters)
        s == tasks[t].conn
    IN
    /\ ~MicrotasksPending /\ ~TicksPending
    /\ tasks[t].pc = "executing"
    /\ cache' = [cache EXCEPT ![ck] = NewEntry(tasks[t].results, now)]
    /\ completions' = [completions EXCEPT ![st] =
           @ \cup {[rows |-> tasks[t].results, at |-> now]}]
    /\ lastDone' = [lastDone EXCEPT ![st] =
           [rows |-> tasks[t].results, at |-> now,
            key |-> sessions[s].key]]
    /\ sessions' = [sessions EXCEPT ![s].state = "LOGGED_IN"]
    /\ tasks' = [tasks EXCEPT ![t] = Returned("done")]
    /\ UNCHANGED <<connections, connectionPromises, now, lastGot, lastCall>>
    /\ UNCHANGED closeVars
    /\ UNCHANGED lastFailed

\* Mutation of CacheOnError: the rows that arrived are stored.
CacheOnErrorStored(t) ==
    [cache EXCEPT ![cacheKey(tasks[t].st.query, tasks[t].st.parameters)] =
        NewEntry(tasks[t].results, now)]

\* if (err) { reject(err); } : nothing is stored
CacheOnError(t) == cache

\* Request callback with an error: reject(err).
RequestFails(t) ==
    LET s == tasks[t].conn
        st == tasks[t].st
    IN
    /\ ~MicrotasksPending /\ ~TicksPending
    /\ tasks[t].pc = "executing"
    /\ sessions' = [sessions EXCEPT ![s].state = "LOGGED_IN"]
    /\ tasks' = [tasks EXCEPT ![t] = Returned("failed")]
    /\ cache' = CacheOnError(t)
    /\ lastFailed' =
           [task |-> t, rows |-> Len(tasks[t].results),
            cached |-> cache[cacheKey(st.query, st.parameters)] # NoEntry]
    /\ UNCHANGED <<connections, connectionPromises, now, completions,
                   lastDone, lastGot, lastCall>>
    /\ UNCHANGED closeVars

\* A session that goes to FINAL fails the request it is executing.
FailRequestsOn(s) ==
    [t \in TaskIds |->
        IF tasks[t].pc = "executing" /\ tasks[t].conn = s
        THEN Returned("failed")
        ELSE tasks[t]]

\* Mutation of ConnectionsOnError: the 'error' observer removes nothing.
ConnectionsOnErrorKept(s) == connections

\* connection.on('error', ...): this.connections.delete(key)
ConnectionsOnError(s) == [connections EXCEPT ![sessions[s].key] = 0]

\* connection.on('error', ...): this.connections.delete(key); the session
\* then ends.
SessionError(s) ==
    /\ ~MicrotasksPending /\ ~TicksPending
    /\ sessions[s].state \in {"LOGGED_IN", "SENT_CLIENT_REQUEST"}
    /\ connections' = ConnectionsOnError(s)
    /\ sessions' = [sessions EXCEPT ![s] =
           [@ EXCEPT !.state = "FINAL", !.endPending = TRUE]]
    /\ tasks' = FailRequestsOn(s)
    /\ UNCHANGED <<connectionPromises, cache, now, completions, lastDone,
                   lastGot, lastCall>>
    /\ UNCHANGED closeVars
    /\ UNCHANGED lastFailed

\* Mutation of EndListeners: the listeners of closeAll are not called.
EndListenersSkipped(waiting, s) == waiting

\* connection.on('end', resolve): 'end' of session s resolves the promise
\* closeAll made for it.
EndListeners(waiting, s) == waiting \ {s}

\* connection.on('end', ...): this.connections.delete(key)
SessionEnd(s) ==
    /\ ~MicrotasksPending
    /\ sessions[s].endPending
    /\ connections' = [connections EXCEPT ![sessions[s].key] = 0]
    /\ sessions' = [sessions EXCEPT ![s].endPending = FALSE]
    /\ closers' = [c \in CloserIds |->
           [closers[c] EXCEPT !.waiting = EndListeners(@, s)]]
    /\ UNCHANGED <<connectionPromises, tasks, cache, now, completions,
                   lastDone, lastGot, lastCall, lastClosed>>
    /\ UNCHANGED lastFailed

\* closeConnection(workspace, database, poolType)
CloseConnection(req) ==
    LET key == RequestKey(req)
        s == connections[key]
    IN
    /\ s # 0
    /\ connections' = [connections EXCEPT ![key] = 0]
    /\ IF sessions[s].state = "FINAL"
       THEN UNCHANGED <<sessions, tasks>>
       ELSE /\ sessions' = [sessions EXCEPT ![s] =
                   [@ EXCEPT !.state = "FINAL", !.endPending = TRUE]]
            /\ tasks' = FailRequestsOn(s)
    /\ UNCHANGED <<connectionPromises, cache, now, completions, lastDone,
                   lastGot, lastCall>>
    /\ UNCHANGED closeVars
    /\ UNCHANGED lastFailed

\* The sessions of connectionPromises.
InFlightCreations == { connectionPromises[k] : k \in Keys } \ {0}

NextCloser(c) ==
    /\ closers[c].pc = "idle"
    /\ \A d \in CloserIds : d < c => closers[d].pc # "idle"

\* Array.from(this.connections.values())
PooledSessions == { connections[k] : k \in Keys } \ {0}

OpenSessions ==
    { s \in SessionIds : sessions[s].state \in {"LOGGED_IN", "SENT_CLIENT_REQUEST"} }

\* getConnectionStats(): connections.size and cache.keys().length
getConnectionStats(conns, entries) ==
    [activeConnections |-> Cardinality({ k \in Keys : conns[k] # 0 }),
     cachedQueries |-> Cardinality({ ck \in CacheKeys : entries[ck] # NoEntry })]

\* this.connections.clear()
ClearedConnections == [k \in Keys |-> 0]

\* this.cache.flushAll()
FlushedCache == [ck \in CacheKeys |-> NoEntry]

\* closeAll() up to `await Promise.all(closePromises)`: for every session in
\* the map, connection.on('end', resolve) and connection.close().  close()
\* moves an open session to FINAL, which fails its request and schedules
\* 'end'; on a session that is already FINAL it does nothing.  shutdown is
\* run from a signal handler, when no continuation is pending.
CloseAllStart(c) ==
    LET held == PooledSessions
        closed == { s \in held : sessions[s].state # "FINAL" }
    IN
    /\ NextCloser(c)
    /\ ~ContinuationsPending
    /\ sessions' = [s \in SessionIds |->
           IF s \in closed
           THEN [sessions[s] EXCEPT !.state = "FINAL", !.endPending = TRUE]
           ELSE sessions[s]]
    /\ tasks' = [t \in TaskIds |->
           IF tasks[t].pc = "executing" /\ tasks[t].conn \in closed
           THEN Returned("failed")
           ELSE tasks[t]]
    /\ closers' = [closers EXCEPT ![c] =
           [pc |-> "awaiting", waiting |-> held, openAtCall |-> OpenSessions,
            closingAtCall |-> held \ closed]]
    /\ UNCHANGED <<connections, connectionPromises, cache, now, completions,
                   lastDone, lastGot, lastCall, lastClosed>>
    /\ UNCHANGED lastFailed

\* closeAll() after `await Promise.all(closePromises)`:
\* this.connections.clear(); this.cache.flushAll()
CloseAllFinish(c) ==
    /\ closers[c].pc = "awaiting"
    /\ closers[c].waiting = {}
    /\ connections' = ClearedConnections
    /\ cache' = FlushedCache
    /\ completions' = [st \in AllStatements |-> {}]
    /\ lastDone' = [st \in AllStatements |-> NoLastDone]
    /\ closers' = [closers EXCEPT ![c] = [IdleCloser EXCEPT !.pc = "done"]]
    /\ lastClosed' =
           [closer |-> c,
            stillOpen |-> closers[c].openAtCall \cap OpenSessions,
            closing |-> closers[c].closingAtCall,
            activeConnections |->
                getConnectionStats(connections', cache').activeConnections,
            cachedQueries |->
                getConnectionStats(connections', cache').cachedQueries,
            creating |-> InFlightCreations]
    /\ UNCHANGED <<connectionPromises, sessions, tasks, now, lastGot, lastCall>>
    /\ UNCHANGED lastFailed

\* clearCache(): this.cache.flushAll()
ClearCache ==
    /\ \E ck \in CacheKeys : cache[ck] # NoEntry
    /\ cache' = [ck \in CacheKeys |-> NoEntry]
    /\ completions' = [st \in AllStatements |-> {}]
    /\ lastDone' = [st \in AllStatements |-> NoLastDone]
    /\ UNCHANGED <<connections, connectionPromises, sessions, tasks, now,
                   lastGot, lastCall>>
    /\ UNCHANGED closeVars
    /\ UNCHANGED lastFailed

\* Time passes.  Completions whose TTL has elapsed leave the history: they
\* are in no later Window.
Tick ==
    /\ ~MicrotasksPending /\ ~TicksPending
    /\ now + CacheTick <= MaxNow
    /\ now' = now + CacheTick
    /\ completions' = [st \in AllStatements |->
           { x \in completions[st] : now' <= x.at + 300 }]
    /\ lastDone' = [st \in AllStatements |->
           IF now' <= lastDone[st].at + 300 THEN lastDone[st]
                                            ELSE NoLastDone]
    /\ UNCHANGED <<connections, connectionPromises, sessions, tasks, cache,
                   lastGot, lastCall>>
    /\ UNCHANGED closeVars
    /\ UNCHANGED lastFailed


(***************************************************************************)
(* SynapseMCPServer: the CallTool request handler                          *)
(***************************************************************************)
VARIABLES allowedWorkspace, readonlyMode, toolCalls, lastTool

serverVars == <<allowedWorkspace, readonlyMode, toolCalls, lastTool>>

\* Number of tool calls explored.
MaxToolCalls == 2

\* A second workspace, and the pool key of a call that names it.
OtherWorkspace == <<"other">>

\* No workspace: the argument is not given, the setting is not configured,
\* no client was built.
NoWorkspace == <<>>

Workspaces == {OneRequest.workspace, OtherWorkspace}

\* The server of a connection string (Server=tcp:<workspace>.sql...), as
\* the workspace it belongs to.
parseConnectionString(connectionString) ==
    IF connectionString = "cs1" THEN OtherWorkspace ELSE OneRequest.workspace

\* Tools of the switch whose operations are explored, with the operation
\* each case calls; any other name is unknown here.
Operation(name) ==
    CASE name = "execute_sql_query" -> "executeSqlQuery"
      [] name = "list_notebooks" -> "listNotebooks"
      [] name = "create_notebook" -> "createNotebook"
      [] name = "delete_notebook" -> "deleteNotebook"
      [] OTHER -> "MethodNotFound"

\* request.params: the tool name and the workspace and tenant arguments
\* (NoWorkspace, None: the argument is not given).
ToolCalls ==
    { [name |-> name, workspace |-> workspace, tenant |-> tenant] :
      name \in {"execute_sql_query", "list_notebooks", "create_notebook",
                "delete_notebook", "drop_everything"},
      workspace \in Workspaces \cup {NoWorkspace},
      tenant \in TenantArgs }

\* The most recent tool call: its name, its workspace argument, the error
\* raised or the operation called, and the endpoint of the REST client the
\* operation built.
NoTool == [name |-> None, workspace |-> NoWorkspace, outcome |-> None,
           endpoint |-> NoWorkspace]

Outcome(call, outcome, endpoint) ==
    [name |-> call.name, workspace |-> call.workspace, outcome |-> outcome,
     endpoint |-> endpoint]

\* The workspace restriction: configured, the argument present, and the
\* two different.
Denied(call) ==
    /\ allowedWorkspace # NoWorkspace
    /\ call.workspace # NoWorkspace
    /\ call.workspace # allowedWorkspace

\* The notebook operations: without the tenant an error payload, else an
\* ArtifactsClient for https://${workspace}.dev.azuresynapse.net.
Endpoint(call) ==
    IF getTenant(call.tenant) = NoTenant THEN NoWorkspace ELSE call.workspace

\* process.env before the server starts, and no tool call yet.
ServerInit ==
    /\ allowedWorkspace \in {NoWorkspace, OneRequest.workspace}
    /\ readonlyMode \in BOOLEAN
    /\ toolCalls = 0
    /\ lastTool = NoTool

\* A process without the two settings.
ServerInitIdle ==
    /\ allowedWorkspace = NoWorkspace
    /\ readonlyMode = FALSE
    /\ toolCalls = 0
    /\ lastTool = NoTool

\* The CallToolRequestSchema handler, up to the first suspension of the
\* operation it calls: the workspace restriction, the switch on the tool
\* name, the schema (workspace is required by each), the operation.
CallTool(t, call) ==
    /\ tmPc = "loaded"
    /\ toolCalls < MaxToolCalls
    /\ toolCalls' = toolCalls + 1
    /\ UNCHANGED <<allowedWorkspace, readonlyMode>>
    /\ IF Denied(call)
       THEN /\ lastTool' = Outcome(call, "InvalidRequest", NoWorkspace)
            /\ UNCHANGED poolVars
       ELSE IF Operation(call.name) = "MethodNotFound"
       THEN /\ lastTool' = Outcome(call, "MethodNotFound", NoWorkspace)
            /\ UNCHANGED poolVars
       ELSE IF call.workspace = NoWorkspace
       THEN /\ lastTool' = Outcome(call, "InvalidParams", NoWorkspace)
            /\ UNCHANGED poolVars
       ELSE IF call.name = "execute_sql_query"
       THEN /\ lastTool' = Outcome(call, Operation(call.name), NoWorkspace)
            /\ ExecuteSqlQuery(t, [workspace |-> call.workspace,
                                   database |-> OneRequest.database,
                                   poolType |-> OneRequest.poolType,
                                   tenant |-> call.tenant], OneStatement)
       ELSE /\ lastTool' = Outcome(call, Operation(call.name), Endpoint(call))
            /\ UNCHANGED poolVars

(***************************************************************************)
(* SynapseOperations and StoredProcedureOperations: the SQL operations     *)
(***************************************************************************)
VARIABLE sqlOp

opVars == <<sqlOp>>

\* The rows of a result; None is `undefined`.
Rows == "rows"

\* What an operation hands to its caller: a payload (the JSON text of
\* content[0]) or an exception.
NoResult == [kind |-> None, success |-> FALSE, data |-> None, error |-> None]

\* JSON.stringify({ success: true, ..., data }): a key whose value is
\* undefined is left out.
SuccessPayload(data) ==
    [kind |-> "payload", success |-> TRUE, data |-> data, error |-> None]

\* The payload of the catch blocks: success false and error.message.
FailurePayload ==
    [kind |-> "payload", success |-> FALSE, data |-> None,
     error |-> "message"]

\* A TypeError that leaves the operation.
Raised ==
    [kind |-> "raised", success |-> FALSE, data |-> None,
     error |-> "TypeError"]

\* What executeSqlQuery returns for the outcome of its call.
SqlResult(outcome) ==
    IF outcome = "done" THEN SuccessPayload(Rows) ELSE FailurePayload

\* One call of an operation.  tablesGiven: dataMigrationHelper is called
\* with one table and migrationMode 'schema-only', else without tables and
\* with migrationMode 'data-only'; action: of manageStoredProcedures.
OperationCall(name, includeStats, tablesGiven, action, tenant) ==
    [name |-> name, includeStats |-> includeStats,
     tablesGiven |-> tablesGiven, action |-> action, tenant |-> tenant]

NoOperation == OperationCall(None, FALSE, FALSE, None, None)

OperationTenants == {None, "acme"}

OperationCalls ==
    { OperationCall("executeSqlQuery", FALSE, FALSE, None, tenant) :
          tenant \in OperationTenants } \cup
    { OperationCall("analyzeTableSchema", includeStats, FALSE, None, tenant) :
          includeStats \in BOOLEAN, tenant \in OperationTenants } \cup
    { OperationCall("dataMigrationHelper", FALSE, tablesGiven, None, tenant) :
          tablesGiven \in BOOLEAN, tenant \in OperationTenants } \cup
    { OperationCall("manageStoredProcedures", FALSE, FALSE, action, tenant) :
          action \in {"create", "update", "execute"},
          tenant \in OperationTenants }

\* The statement of the first executeQuery of a call.
FirstStatement(call) ==
    CASE call.name = "analyzeTableSchema" -> SchemaStatement
      [] call.name = "dataMigrationHelper" ->
             IF call.tablesGiven THEN TableDefStatement
             ELSE ListTablesStatement
      [] call.name = "manageStoredProcedures" ->
             IF call.action = "create" THEN CreateStatement
             ELSE IF call.action = "update" THEN AlterStatement
             ELSE ExecStatement
      [] OTHER -> OneStatement

\* workspace, database, poolType and tenant of the executeQuery calls of an
\* operation: poolType is 'dedicated' except for executeSqlQuery itself.
SqlArgs(call) ==
    [workspace |-> OneRequest.workspace, database |-> OneRequest.database,
     poolType |-> IF call.name = "executeSqlQuery"
                  THEN OneRequest.poolType ELSE "dedicated",
     tenant |-> call.tenant]

\* analyzeTableSchema with includeStats: columns: schemaData.data,
\* statistics: statsData.data[0] || {} ; indexing undefined throws.
Combine(schemaData, statsData) ==
    IF statsData.data = None THEN Raised
    ELSE SuccessPayload(schemaData.data)

\* What the operation does with the result of its last statement.
\* dataMigrationHelper maps over tablesData.data (or data.data in
\* generateCreateTableScript) inside its try block; the stored-procedure
\* methods return their own payload from the try or the catch block.
OperationResult(call, first, last) ==
    CASE call.name = "analyzeTableSchema" ->
             IF call.includeStats THEN Combine(first, last) ELSE last
      [] call.name = "dataMigrationHelper" ->
             IF last.data = None THEN FailurePayload
             ELSE SuccessPayload(Rows)
      [] call.name = "manageStoredProcedures" ->
             IF last.success THEN SuccessPayload(last.data)
             ELSE FailurePayload
      [] OTHER -> last

\* The operation in progress or the last one that returned: its call, the
\* task of the statement it is awaiting, the result of its first statement,
\* whether a connection or statement of it has failed, and its result.
IdleOperation ==
    [call |-> NoOperation, pc |-> "idle", step |-> 0, task |-> 0,
     first |-> NoResult, failed |-> FALSE, result |-> NoResult]

OpInit == sqlOp = IdleOperation

\* An operation up to its first suspension, called when no other operation
\* is in progress.  createProcedure, updateProcedure and executeProcedure
\* take the steps of executeSqlQuery: getConnectionString, getConnection,
\* executeQuery, and a catch block that returns the failure payload.
StartOperation(t, call) ==
    /\ sqlOp.pc # "awaiting"
    /\ ExecuteSqlQuery(t, SqlArgs(call), FirstStatement(call))
    /\ sqlOp' = [IdleOperation EXCEPT !.call = call, !.pc = "awaiting",
                                      !.step = 1, !.task = t]

\* The operation after the statement it awaits has settled: the second
\* statement of analyzeTableSchema (as call t), or the return.
ContinueOperation(t) ==
    LET call == sqlOp.call
        last == SqlResult(tasks[sqlOp.task].pc)
        failed == sqlOp.failed \/ ~last.success
    IN
    /\ sqlOp.pc = "awaiting"
    /\ tasks[sqlOp.task].pc \in {"done", "failed"}
    /\ IF call.name = "analyzeTableSchema" /\ call.includeStats
          /\ sqlOp.step = 1
       THEN /\ ExecuteSqlQuery(t, SqlArgs(call), StatsStatement)
            /\ sqlOp' = [sqlOp EXCEPT !.step = 2, !.task = t,
                                      !.first = last, !.failed = failed]
       ELSE /\ sqlOp' = [sqlOp EXCEPT
                        !.pc = "returned", !.failed = failed,
                        !.result = OperationResult(call, sqlOp.first, last)]
            /\ UNCHANGED poolVars

(***************************************************************************)
(* Specifications                                                          *)
(***************************************************************************)
vars == <<poolVars, retryVars, authVars, tenantVars, serverVars, opVars>>

\* The parts of the program a specification leaves idle.
PoolIdle == UNCHANGED poolVars

RetryIdle == UNCHANGED retryVars

AuthIdle == UNCHANGED authVars

TenantIdle == UNCHANGED tenantVars

ServerIdle == UNCHANGED serverVars

OpIdle == UNCHANGED opVars

\* Session lifecycle: SQL tool calls for one pool key with one statement,
\* and the events of the sessions they open.
SpecInit == Init /\ RetryInitIdle /\ AuthInit /\ TenantInitIdle /\ ServerInitIdle /\ OpInit

Next ==
    \/ (\E t \in TaskIds : StartQuery(t, OneRequest, OneStatement)) /\ RetryIdle /\ AuthIdle /\ TenantIdle /\ ServerIdle /\ OpIdle
    \/ (\E s \in SessionIds, ok \in BOOLEAN : SessionConnect(s, ok)) /\ RetryIdle /\ AuthIdle /\ TenantIdle /\ ServerIdle /\ OpIdle
    \/ (\E t \in TaskIds : ResumeInitiator(t)) /\ RetryIdle /\ AuthIdle /\ TenantIdle /\ ServerIdle /\ OpIdle
    \/ (\E t \in TaskIds : ResumeCoalesced(t)) /\ RetryIdle /\ AuthIdle /\ TenantIdle /\ ServerIdle /\ OpIdle
    \/ (\E t \in TaskIds : ExecuteQuery(t)) /\ RetryIdle /\ AuthIdle /\ TenantIdle /\ ServerIdle /\ OpIdle
    \/ (\E t \in TaskIds : RequestRow(t)) /\ RetryIdle /\ AuthIdle /\ TenantIdle /\ ServerIdle /\ OpIdle
    \/ (\E t \in TaskIds : RequestSucceeds(t)) /\ RetryIdle /\ AuthIdle /\ TenantIdle /\ ServerIdle /\ OpIdle
    \/ (\E t \in TaskIds : RequestFails(t)) /\ RetryIdle /\ AuthIdle /\ TenantIdle /\ ServerIdle /\ OpIdle
    \/ (\E s \in SessionIds : SessionError(s)) /\ RetryIdle /\ AuthIdle /\ TenantIdle /\ ServerIdle /\ OpIdle
    \/ (\E s \in SessionIds : SessionEnd(s)) /\ RetryIdle /\ AuthIdle /\ TenantIdle /\ ServerIdle /\ OpIdle
    \/ CloseConnection(OneRequest) /\ RetryIdle /\ AuthIdle /\ TenantIdle /\ ServerIdle /\ OpIdle

Spec == SpecInit /\ [][Next]_vars

\* Session events: getConnection calls for one pool key and the events of
\* the sessions they open; a statement that was sent ends with an empty
\* result or with its session.
SessionNext ==
    \/ (\E t \in TaskIds : StartQuery(t, OneRequest, OneStatement)) /\ RetryIdle /\ AuthIdle /\ TenantIdle /\ ServerIdle /\ OpIdle
    \/ (\E s \in SessionIds, ok \in BOOLEAN : SessionConnect(s, ok)) /\ RetryIdle /\ AuthIdle /\ TenantIdle /\ ServerIdle /\ OpIdle
    \/ (\E t \in TaskIds : ResumeInitiator(t)) /\ RetryIdle /\ AuthIdle /\ TenantIdle /\ ServerIdle /\ OpIdle
    \/ (\E t \in TaskIds : ResumeCoalesced(t)) /\ RetryIdle /\ AuthIdle /\ TenantIdle /\ ServerIdle /\ OpIdle
    \/ (\E t \in TaskIds : ExecuteQuery(t)) /\ RetryIdle /\ AuthIdle /\ TenantIdle /\ ServerIdle /\ OpIdle
    \/ (\E t \in TaskIds : RequestSucceeds(t)) /\ RetryIdle /\ AuthIdle /\ TenantIdle /\ ServerIdle /\ OpIdle
    \/ (\E s \in SessionIds : SessionError(s)) /\ RetryIdle /\ AuthIdle /\ TenantIdle /\ ServerIdle /\ OpIdle
    \/ (\E s \in SessionIds : SessionEnd(s)) /\ RetryIdle /\ AuthIdle /\ TenantIdle /\ ServerIdle /\ OpIdle
    \/ CloseConnection(OneRequest) /\ RetryIdle /\ AuthIdle /\ TenantIdle /\ ServerIdle /\ OpIdle

SessionSpec == SpecInit /\ [][SessionNext]_vars

\* Shutdown: SQL tool calls for one pool key, the events of their sessions,
\* and calls of closeAll.  Every connection attempt succeeds; a request
\* ends with its rows, or with ECLOSE when its session is closed under it.
CloseNext ==
    \/ (\E t \in CloseTaskIds : StartQuery(t, OneRequest, OneStatement)) /\ RetryIdle /\ AuthIdle /\ TenantIdle /\ ServerIdle /\ OpIdle
    \/ (\E s \in SessionIds : SessionConnect(s, TRUE)) /\ RetryIdle /\ AuthIdle /\ TenantIdle /\ ServerIdle /\ OpIdle
    \/ (\E t \in CloseTaskIds : ResumeInitiator(t)) /\ RetryIdle /\ AuthIdle /\ TenantIdle /\ ServerIdle /\ OpIdle
    \/ (\E t \in CloseTaskIds : ResumeCoalesced(t)) /\ RetryIdle /\ AuthIdle /\ TenantIdle /\ ServerIdle /\ OpIdle
    \/ (\E t \in CloseTaskIds : ExecuteQuery(t)) /\ RetryIdle /\ AuthIdle /\ TenantIdle /\ ServerIdle /\ OpIdle
    \/ (\E t \in CloseTaskIds : RequestSucceeds(t)) /\ RetryIdle /\ AuthIdle /\ TenantIdle /\ ServerIdle /\ OpIdle
    \/ (\E s \in SessionIds : SessionError(s)) /\ RetryIdle /\ AuthIdle /\ TenantIdle /\ ServerIdle /\ OpIdle
    \/ (\E s \in SessionIds : SessionEnd(s)) /\ RetryIdle /\ AuthIdle /\ TenantIdle /\ ServerIdle /\ OpIdle
    \/ CloseConnection(OneRequest) /\ RetryIdle /\ AuthIdle /\ TenantIdle /\ ServerIdle /\ OpIdle
    \/ (\E c \in CloserIds : CloseAllStart(c)) /\ RetryIdle /\ AuthIdle /\ TenantIdle /\ ServerIdle /\ OpIdle
    \/ (\E c \in CloserIds : CloseAllFinish(c)) /\ RetryIdle /\ AuthIdle /\ TenantIdle /\ ServerIdle /\ OpIdle

CloseSpec == SpecInit /\ [][CloseNext]_vars

\* The event loop runs every callback that is pending.
CloseFairSpec == CloseSpec /\ WF_vars(CloseNext)

\* Result cache: executeQuery called on two established sessions, cache
\* flushes, and the clock.
CacheSpecInit == CacheInit /\ RetryInitIdle /\ AuthInit /\ TenantInitIdle /\ ServerInitIdle /\ OpInit

CacheNext ==
    \/ (\E t \in TaskIds, s \in SessionIds, st \in Statements :
            CallExecuteQuery(t, s, st)) /\ RetryIdle /\ AuthIdle /\ TenantIdle /\ ServerIdle /\ OpIdle
    \/ (\E t \in TaskIds : RequestRow(t)) /\ RetryIdle /\ AuthIdle /\ TenantIdle /\ ServerIdle /\ OpIdle
    \/ (\E t \in TaskIds : RequestSucceeds(t)) /\ RetryIdle /\ AuthIdle /\ TenantIdle /\ ServerIdle /\ OpIdle
    \/ (\E t \in TaskIds : RequestFails(t)) /\ RetryIdle /\ AuthIdle /\ TenantIdle /\ ServerIdle /\ OpIdle
    \/ ClearCache /\ RetryIdle /\ AuthIdle /\ TenantIdle /\ ServerIdle /\ OpIdle
    \/ Tick /\ RetryIdle /\ AuthIdle /\ TenantIdle /\ ServerIdle /\ OpIdle

CacheSpec == CacheSpecInit /\ [][CacheNext]_vars

\* One call of retryOperation, for every maxRetries and baseDelay.
RetrySpecInit == Init /\ RetryInit /\ AuthInit /\ TenantInitIdle /\ ServerInitIdle /\ OpInit

RetryNext ==
    \/ RetryInvoke /\ PoolIdle /\ AuthIdle /\ TenantIdle /\ ServerIdle /\ OpIdle
    \/ RetrySettleOk /\ PoolIdle /\ AuthIdle /\ TenantIdle /\ ServerIdle /\ OpIdle
    \/ (\E error \in RetryErrors : RetrySettleError(error)) /\ PoolIdle /\ AuthIdle /\ TenantIdle /\ ServerIdle /\ OpIdle
    \/ RetryWake /\ PoolIdle /\ AuthIdle /\ TenantIdle /\ ServerIdle /\ OpIdle

RetrySpec == RetrySpecInit /\ [][RetryNext]_vars

\* Every invocation of the operation settles and every timer fires.
RetryFairSpec == RetrySpec /\ WF_vars(RetryNext)

\* Tenant registry: the constructor's load from each configuration file and
\* environment, then calls of addTenant, removeTenant and setDefaultTenant.
RegistrySpecInit == Init /\ RetryInitIdle /\ AuthInit /\ TenantInit /\ ServerInitIdle /\ OpInit

RegistryNext ==
    \/ LoadConfiguration /\ PoolIdle /\ RetryIdle /\ AuthIdle /\ ServerIdle /\ OpIdle
    \/ (\E name \in TenantNames, config \in TenantConfigs :
            AddTenant(name, config)) /\ PoolIdle /\ RetryIdle /\ AuthIdle /\ ServerIdle /\ OpIdle
    \/ (\E name \in NameArgs : SetDefaultTenant(name))
            /\ PoolIdle /\ RetryIdle /\ AuthIdle /\ ServerIdle /\ OpIdle
    \/ (\E name \in NameArgs : RemoveTenant(name))
            /\ PoolIdle /\ RetryIdle /\ AuthIdle /\ ServerIdle /\ OpIdle

RegistrySpec == RegistrySpecInit /\ [][RegistryNext]_vars

\* SQL tool calls of several tenants: the registry, execute_sql_query calls
\* with each tenant argument, and the events of the sessions they open; a
\* request that was sent ends with its rows.
SqlNext ==
    \/ LoadConfiguration /\ PoolIdle /\ RetryIdle /\ AuthIdle /\ ServerIdle /\ OpIdle
    \/ (\E config \in ApiConfigs : AddTenant(config.name, config))
            /\ PoolIdle /\ RetryIdle /\ AuthIdle /\ ServerIdle /\ OpIdle
    \/ (\E t \in SqlTaskIds, params \in SqlParams :
            ExecuteSqlQuery(t, params, OneStatement))
            /\ RetryIdle /\ AuthIdle /\ TenantIdle /\ ServerIdle /\ OpIdle
    \/ (\E s \in SessionIds, ok \in BOOLEAN : SessionConnect(s, ok))
            /\ RetryIdle /\ AuthIdle /\ TenantIdle /\ ServerIdle /\ OpIdle
    \/ (\E t \in SqlTaskIds : ResumeInitiator(t)) /\ RetryIdle /\ AuthIdle /\ TenantIdle /\ ServerIdle /\ OpIdle
    \/ (\E t \in SqlTaskIds : ResumeCoalesced(t)) /\ RetryIdle /\ AuthIdle /\ TenantIdle /\ ServerIdle /\ OpIdle
    \/ (\E t \in SqlTaskIds : ExecuteQuery(t)) /\ RetryIdle /\ AuthIdle /\ TenantIdle /\ ServerIdle /\ OpIdle
    \/ (\E t \in SqlTaskIds : RequestSucceeds(t)) /\ RetryIdle /\ AuthIdle /\ TenantIdle /\ ServerIdle /\ OpIdle
    \/ (\E s \in SessionIds : SessionEnd(s)) /\ RetryIdle /\ AuthIdle /\ TenantIdle /\ ServerIdle /\ OpIdle

SqlSpec == RegistrySpecInit /\ [][SqlNext]_vars

\* Tool calls: the registry, the CallTool handler under each setting of the
\* workspace restriction and of READONLY_MODE, and the events of the
\* sessions the SQL tool opens.
ServerSpecInit == Init /\ RetryInitIdle /\ AuthInit /\ TenantInit /\ ServerInit /\ OpInit

ServerNext ==
    \/ LoadConfiguration /\ PoolIdle /\ RetryIdle /\ AuthIdle /\ ServerIdle /\ OpIdle
    \/ (\E t \in SqlTaskIds, call \in ToolCalls :
            NextTask(t) /\ CallTool(t, call))
            /\ RetryIdle /\ AuthIdle /\ TenantIdle /\ OpIdle
    \/ (\E s \in SessionIds, ok \in BOOLEAN : SessionConnect(s, ok))
            /\ RetryIdle /\ AuthIdle /\ TenantIdle /\ ServerIdle /\ OpIdle
    \/ (\E t \in SqlTaskIds : ResumeInitiator(t))
            /\ RetryIdle /\ AuthIdle /\ TenantIdle /\ ServerIdle /\ OpIdle
    \/ (\E t \in SqlTaskIds : ResumeCoalesced(t))
            /\ RetryIdle /\ AuthIdle /\ TenantIdle /\ ServerIdle /\ OpIdle
    \/ (\E t \in SqlTaskIds : ExecuteQuery(t))
            /\ RetryIdle /\ AuthIdle /\ TenantIdle /\ ServerIdle /\ OpIdle
    \/ (\E t \in SqlTaskIds : RequestSucceeds(t))
            /\ RetryIdle /\ AuthIdle /\ TenantIdle /\ ServerIdle /\ OpIdle
    \/ (\E s \in SessionIds : SessionEnd(s))
            /\ RetryIdle /\ AuthIdle /\ TenantIdle /\ ServerIdle /\ OpIdle

ServerSpec == ServerSpecInit /\ [][ServerNext]_vars

\* SQL operations called one after the other: the registry, the operations
\* and the events of the sessions they open; a statement that was sent ends
\* with its rows or with an error.  No two getConnection calls overlap, so
\* no call joins a creation in flight.
OperationSpecInit ==
    Init /\ RetryInitIdle /\ AuthInit /\ TenantInit /\ ServerInitIdle /\ OpInit

OperationNext ==
    \/ LoadConfiguration /\ PoolIdle /\ RetryIdle /\ AuthIdle /\ ServerIdle /\ OpIdle
    \/ (\E t \in SqlTaskIds, call \in OperationCalls :
            StartOperation(t, call))
            /\ RetryIdle /\ AuthIdle /\ TenantIdle /\ ServerIdle
    \/ (\E t \in SqlTaskIds : ContinueOperation(t))
            /\ RetryIdle /\ AuthIdle /\ TenantIdle /\ ServerIdle
    \/ (\E s \in SessionIds, ok \in BOOLEAN : SessionConnect(s, ok))
            /\ RetryIdle /\ AuthIdle /\ TenantIdle /\ ServerIdle /\ OpIdle
    \/ (\E t \in SqlTaskIds : ResumeInitiator(t))
            /\ RetryIdle /\ AuthIdle /\ TenantIdle /\ ServerIdle /\ OpIdle
    \/ (\E t \in SqlTaskIds : ExecuteQuery(t))
            /\ RetryIdle /\ AuthIdle /\ TenantIdle /\ ServerIdle /\ OpIdle
    \/ (\E t \in SqlTaskIds : RequestSucceeds(t))
            /\ RetryIdle /\ AuthIdle /\ TenantIdle /\ ServerIdle /\ OpIdle
    \/ (\E t \in SqlTaskIds : RequestFails(t))
            /\ RetryIdle /\ AuthIdle /\ TenantIdle /\ ServerIdle /\ OpIdle
    \/ (\E s \in SessionIds : SessionEnd(s))
            /\ RetryIdle /\ AuthIdle /\ TenantIdle /\ ServerIdle /\ OpIdle

OperationSpec == OperationSpecInit /\ [][OperationNext]_vars

\* ArtifactService.makeRequest: retryOperation around a closure that awaits
\* getAuthorizationHeader() and then the HTTP request.  The getAccessToken
\* call of the attempt in progress is call number rInvocations.

\* One attempt up to its first suspension: the cached token, or
\* credential.getToken.
RequestAttempt(c) == RetryInvoke /\ GetAccessToken(c)

\* credential.getToken resolves: the closure goes on to httpClient.request.
RequestTokenAcquired(c, expiry) ==
    /\ rPc = "awaiting"
    /\ c = rInvocations
    /\ AcquireSucceeds(c, expiry)

\* The HTTP request of the attempt has been sent and is not answered yet.
HttpInFlight ==
    /\ rPc = "awaiting"
    /\ aCalls[rInvocations].pc = "returned"

\* A 2xx response.
RequestHttpOk == HttpInFlight /\ RetrySettleOk

\* A response outside 2xx (rethrown as SynapseApiError) or no response.
HttpErrors ==
    SynapseApiErrors \cup { e \in OtherErrors : e.cls = "NetworkError" }

RequestHttpError(error) == HttpInFlight /\ RetrySettleError(error)

\* credential.getToken fails: getAccessToken throws AuthenticationError,
\* the closure rethrows it (it has no response), retryOperation catches it.
RequestTokenFails(c, cause) ==
    /\ rPc = "awaiting"
    /\ c = rInvocations
    /\ AcquireFails(c, cause)
    /\ RetrySettleError([cls |-> ErrorOnFailure(cause), statusCode |-> 0])

RequestNext ==
    \/ (\E c \in AuthCallIds : RequestAttempt(c))
            /\ PoolIdle /\ TenantIdle /\ ServerIdle /\ OpIdle
    \/ (\E c \in AuthCallIds, expiry \in ExpiryChoices :
            RequestTokenAcquired(c, expiry))
            /\ PoolIdle /\ RetryIdle /\ TenantIdle /\ ServerIdle /\ OpIdle
    \/ RequestHttpOk /\ PoolIdle /\ AuthIdle /\ TenantIdle /\ ServerIdle /\ OpIdle
    \/ (\E error \in HttpErrors : RequestHttpError(error))
            /\ PoolIdle /\ AuthIdle /\ TenantIdle /\ ServerIdle /\ OpIdle
    \/ (\E c \in AuthCallIds, cause \in FailureCauses :
            RequestTokenFails(c, cause))
            /\ PoolIdle /\ TenantIdle /\ ServerIdle /\ OpIdle
    \/ RetryWake /\ PoolIdle /\ AuthIdle /\ TenantIdle /\ ServerIdle /\ OpIdle

RequestSpec == RetrySpecInit /\ [][RequestNext]_vars

\* Token cache: calls of getAccessToken and refreshToken, the credential's
\* answers, cache flushes, and the clock.
AuthSpecInit == Init /\ RetryInitIdle /\ AuthInit /\ TenantInitIdle /\ ServerInitIdle /\ OpInit

AuthNext ==
    \/ (\E c \in AuthCallIds : GetAccessToken(c)) /\ PoolIdle /\ RetryIdle /\ TenantIdle /\ ServerIdle /\ OpIdle
    \/ (\E c \in AuthCallIds : RefreshToken(c)) /\ PoolIdle /\ RetryIdle /\ TenantIdle /\ ServerIdle /\ OpIdle
    \/ (\E c \in AuthCallIds, expiry \in ExpiryChoices :
            AcquireSucceeds(c, expiry)) /\ PoolIdle /\ RetryIdle /\ TenantIdle /\ ServerIdle /\ OpIdle
    \/ (\E c \in AuthCallIds, cause \in FailureCauses :
            AcquireFails(c, cause)) /\ PoolIdle /\ RetryIdle /\ TenantIdle /\ ServerIdle /\ OpIdle
    \/ AuthClearCache /\ PoolIdle /\ RetryIdle /\ TenantIdle /\ ServerIdle /\ OpIdle
    \/ AuthTime /\ PoolIdle /\ RetryIdle /\ TenantIdle /\ ServerIdle /\ OpIdle

AuthSpec == AuthSpecInit /\ [][AuthNext]_vars


(***************************************************************************)
(* Properties: connection pool                                             *)
(***************************************************************************)
Connecting(k) ==
    { s \in SessionIds : sessions[s].state = "CONNECTING" /\ sessions[s].key = k }

Live(k) ==
    { s \in SessionIds : /\ sessions[s].state \in {"LOGGED_IN", "SENT_CLIENT_REQUEST"}
                         /\ sessions[s].key = k }

\* C1 (as claimed): while a creation for a key is in flight there is exactly
\* one connect attempt for the key, a getConnection call issued meanwhile
\* starts none of its own, and when the creation succeeds every such call
\* receives the session of that creation.
C1_Coalescing ==
    /\ \A k \in Keys : Cardinality(Connecting(k)) <= 1
    /\ \A t \in TaskIds :
           tasks[t].pc = "awaitConn" /\ tasks[t].during # 0
               => ~tasks[t].initiator /\ tasks[t].awaiting = tasks[t].during
    /\ lastGot.during # 0 /\ lastGot.conn # 0 => lastGot.conn = lastGot.during

\* The part of C1 the code keeps: one pending attempt per key, and no caller
\* that found a creation in flight starts another.
C1_OneAttempt ==
    /\ \A k \in Keys : Cardinality(Connecting(k)) <= 1
    /\ \A t \in TaskIds :
           tasks[t].pc = "awaitConn" /\ tasks[t].during # 0
               => ~tasks[t].initiator /\ tasks[t].awaiting = tasks[t].during

\* C2 (as claimed): no key has both an entry in the session map and an
\* entry in the in-flight map.
C2_Exclusive ==
    \A k \in Keys : ~(connections[k] # 0 /\ connectionPromises[k] # 0)

\* C3 (as claimed): at most one session per key is live (opened and not yet
\* closed).
C3_OneLiveSession ==
    \A k \in Keys : Cardinality(Live(k)) <= 1

C14_TenantSessions ==
    lastGot.conn # 0 =>
        sessions[lastGot.conn].connectionString = lastGot.connectionString

\* C15 (as claimed): a rejected session open is retried: when the first
\* call's getConnection has failed and no other call was made, the pool has
\* made a second attempt to open a session.
C15_SqlRetried ==
    (lastGot.task = 1 /\ lastGot.conn = 0 /\ tasks[2].pc = "idle") =>
        sessions[2].state # "UNBORN"

\* Positions of the descriptors of a type in sqlPools.
PoolsOfType(sqlPools, poolType) ==
    { i \in 1..Len(sqlPools) : sqlPools[i].type = poolType }

FirstOf(S) == CHOOSE i \in S : \A j \in S : i <= j

C17_FirstDescriptor ==
    \A name \in NameArgs, poolType \in {"serverless", "dedicated"} :
        LET tenant == getTenant(name)
            found == PoolsOfType(tenant.sqlPools, poolType)
        IN getConnectionString(name, poolType) =
               IF tenant = NoTenant \/ found = {} THEN None
               ELSE tenant.sqlPools[FirstOf(found)].connectionString

C17_StringBeforeSession ==
    /\ \A t \in SqlTaskIds :
           tasks[t].pc \in {"awaitConn", "haveConn"} =>
               Truthy(tasks[t].connectionString)
    /\ \A s \in SessionIds :
           sessions[s].state # "UNBORN" => Truthy(sessions[s].connectionString)

C17_Refused ==
    \A t \in SqlTaskIds :
        (tasks[t].pc = "idle" /\ tasks'[t].pc = "failed") =>
            UNCHANGED <<connections, connectionPromises, sessions, cache>>

\* C17: getConnectionString is absent when no tenant resolves or the tenant
\* has no descriptor of the requested kind, and otherwise is the connection
\* string of the first such descriptor in list order; a call without a
\* connection string returns failure in one step that leaves the session
\* map, the creations in flight, the sessions and the result cache as they
\* were, so every getConnection call and every session has a connection
\* string.
C17_NoStringNoSession ==
    /\ [](C17_FirstDescriptor /\ C17_StringBeforeSession)
    /\ [][C17_Refused]_vars

\* The first call was refused for want of a connection string (no request
\* failed and the only session ever created is open), and the second, for a
\* tenant with two serverless descriptors, received a session opened with
\* the first.
C17_Witness ==
    /\ tasks[1].pc = "failed"
    /\ lastFailed = NoFailed
    /\ sessions[1].state = "LOGGED_IN"
    /\ sessions[2].state = "UNBORN"
    /\ tenants["acme"] = TwoPools
    /\ lastGot.task = 2
    /\ lastGot.conn = 1
    /\ lastGot.connectionString = "cs2"
    /\ sessions[1].connectionString = "cs2"

\* C19 (as claimed): with AZURE_SYNAPSE_ALLOWED_WORKSPACE set, a call that
\* names another workspace is rejected with InvalidRequest, and every REST
\* client and every SQL session that a call creates targets the allowed
\* workspace, whatever the tenant argument.
C19_AllowedWorkspaceOnly ==
    allowedWorkspace # NoWorkspace =>
        /\ (lastTool.workspace \notin {NoWorkspace, allowedWorkspace} =>
                lastTool.outcome = "InvalidRequest")
        /\ lastTool.endpoint \in {NoWorkspace, allowedWorkspace}
        /\ \A s \in SessionIds :
               sessions[s].state # "UNBORN" =>
                   parseConnectionString(sessions[s].connectionString)
                       = allowedWorkspace

\* C20 (as claimed): with READONLY_MODE=true no modifying operation is
\* called: neither createNotebook nor deleteNotebook.
C20_ReadOnly ==
    readonlyMode => lastTool.outcome \notin {"createNotebook", "deleteNotebook"}

\* No creation is recorded for a key unless its connect attempt is pending,
\* once the continuations of the settled attempt have run.
C22_NoStaleCreation ==
    ~ContinuationsPending =>
        \A k \in Keys :
            connectionPromises[k] # 0 =>
                /\ sessions[connectionPromises[k]].settled = "pending"
                /\ sessions[connectionPromises[k]].state = "CONNECTING"

\* A caller that resumes from a rejected attempt fails, and its step
\* registers no session, creates none, and (the initiator) removes the
\* creation.
C22_FailureStep ==
    \A t \in TaskIds :
        (/\ tasks[t].pc = "awaitConn"
         /\ sessions[tasks[t].awaiting].settled = "rejected"
         /\ tasks'[t] # tasks[t]) =>
            /\ tasks'[t].pc = "failed"
            /\ lastGot' = [task |-> t,
                           connectionString |-> tasks[t].connectionString,
                           during |-> tasks[t].during, conn |-> 0]
            /\ UNCHANGED <<connections, sessions>>
            /\ tasks[t].initiator => connectionPromises'[tasks[t].key] = 0

\* A getConnection call made when no continuation is pending never joins a
\* settled attempt: it is given the healthy session of the map, or awaits
\* an attempt that is pending, which it starts when none is.
C22_FreshAttempt ==
    \A t \in TaskIds :
        (tasks[t].pc = "idle" /\ tasks'[t].pc = "awaitConn"
         /\ ~ContinuationsPending) =>
            /\ sessions'[tasks'[t].awaiting].settled = "pending"
            /\ tasks'[t].initiator <=> connectionPromises[tasks'[t].key] = 0

\* C22: a creation is removed when its connect attempt settles, so that
\* none is recorded for a key without a pending attempt; a failed attempt
\* registers no session and is not repeated by the pool, its error reaches
\* the initiator and every coalesced caller, and the next getConnection
\* starts a fresh attempt.
C22_SettledCreationRemoved ==
    /\ []C22_NoStaleCreation
    /\ [][C22_FailureStep /\ C22_FreshAttempt]_vars

\* The first attempt was rejected, its initiator and a coalesced caller have
\* both failed, and the third call has started the second attempt.
C22_Witness ==
    /\ sessions[1].settled = "rejected"
    /\ tasks[1].pc = "failed"
    /\ tasks[2].pc = "failed"
    /\ lastGot = [task |-> 2, connectionString |-> OneRequest.connectionString,
                  during |-> 1, conn |-> 0]
    /\ tasks[3].pc = "awaitConn"
    /\ tasks[3].initiator
    /\ tasks[3].awaiting = 2
    /\ connectionPromises[RequestKey(OneRequest)] = 2
    /\ connections[RequestKey(OneRequest)] = 0

\* The session map holds no dead session.
C23_NoDeadSessionPooled ==
    \A k \in Keys :
        connections[k] # 0 => sessions[connections[k]].state # "FINAL"

\* The close event of a session leaves no entry under its key, and a
\* getConnection call that returns at once returns a session that is
\* LOGGED_IN.
C23_Step ==
    /\ \A s \in SessionIds :
           (sessions[s].endPending /\ ~sessions'[s].endPending) =>
               connections'[sessions[s].key] = 0
    /\ \A t \in TaskIds :
           (tasks[t].pc = "idle" /\ tasks'[t].pc = "haveConn") =>
               sessions[tasks'[t].conn].state = "LOGGED_IN"

\* C23: when a pooled session emits an error or a close event its key is
\* removed from the map, so that the map never holds a dead session and a
\* later getConnection for the key does not return it.
C23_DeadSessionRemoved ==
    /\ []C23_NoDeadSessionPooled
    /\ [][C23_Step]_vars

\* The pooled session 1 has died with its request, its close event was
\* delivered, and the next call for the key has started the creation of
\* session 2.
C23_Witness ==
    /\ sessions[1].state = "FINAL"
    /\ sessions[1].settled = "resolved"
    /\ ~sessions[1].endPending
    /\ tasks[1].pc = "failed"
    /\ connections[RequestKey(OneRequest)] = 0
    /\ tasks[2].pc = "awaitConn"
    /\ tasks[2].initiator
    /\ tasks[2].awaiting = 2
    /\ tasks[2].during = 0

\* C25 (as claimed): an error or close event of a session that is not the
\* map's entry for its key leaves the session map unchanged.
C25_StaleEventHarmless ==
    [][\A s \in SessionIds :
          (/\ \/ /\ sessions[s].state \in {"LOGGED_IN", "SENT_CLIENT_REQUEST"}
                 /\ sessions'[s].state = "FINAL"
              \/ sessions[s].endPending /\ ~sessions'[s].endPending
           /\ connections[sessions[s].key] # s) =>
              connections' = connections]_vars

\* C26 (as claimed): a session whose creation was in flight when closeAll
\* completed is not a session of the pool afterwards.
C26_NothingSurvivesCloseAll ==
    lastClosed.closer # 0 =>
        \A s \in lastClosed.creating : connections[sessions[s].key] # s

\* C24 (as claimed): a call answered from the result cache is answered with
\* the rows of an execution on a session of the same key as its own.
C24_CacheIsolation ==
    (lastCall.hit /\ lastCall.from # <<>>) => lastCall.from = lastCall.key

\* C11 (as claimed): when closeAll completes, every session that was open
\* when it was called is closed, the session map is empty and the result
\* cache is empty (getConnectionStats reports 0 and 0).
C11_CloseAllClosesAll ==
    lastClosed.closer # 0 =>
        /\ lastClosed.stillOpen = {}
        /\ lastClosed.activeConnections = 0
        /\ lastClosed.cachedQueries = 0

\* The part of C11 that holds: the map and the cache are empty on completion.
C11_StatsZero ==
    lastClosed.closer # 0 =>
        lastClosed.activeConnections = 0 /\ lastClosed.cachedQueries = 0

\* C13: a step in which an executeQuery fails (its request completes with an
\* error, or the session refuses or drops it) leaves the result cache as it
\* was: no entry is created or modified.
C13_FailureNotCached ==
    [][(\E t \in TaskIds : tasks[t].pc # "failed" /\ tasks'[t].pc = "failed")
          => cache' = cache]_vars

\* A request failed after a row had arrived, and its fingerprint has no
\* cache entry.
C13_Witness ==
    /\ lastFailed.task # 0
    /\ lastFailed.rows > 0
    /\ ~lastFailed.cached
    /\ cache[cacheKey(OneStatement.query, OneStatement.parameters)] = NoEntry
    /\ cache[cacheKey("SELECT 1", << <<"id", 1>> >>)] = NoEntry

\* A closeAll never waits for a session whose 'end' has already been
\* delivered: a closed session is in the map only until its 'end'.
C12_NoLostConfirmation ==
    /\ \A c \in CloserIds : \A s \in closers[c].waiting : sessions[s].endPending
    /\ \A s \in PooledSessions :
           sessions[s].state = "FINAL" => sessions[s].endPending

\* C12: every closeAll call completes, whatever the state it is called in:
\* also when sessions of the map are already closing and when another
\* closeAll is running.
C12_CloseAllCompletes ==
    /\ []C12_NoLostConfirmation
    /\ \A c \in CloserIds :
           (closers[c].pc = "awaiting") ~> (closers[c].pc = "done")

\* The second of two overlapping closeAll calls has completed; the sessions
\* it found in the map had been closed by the first.
C12_Witness ==
    /\ closers[1].pc = "done"
    /\ closers[2].pc = "done"
    /\ lastClosed.closer = 2
    /\ lastClosed.closing # {}

(***************************************************************************)
(* Properties: tenant registry                                             *)
(***************************************************************************)
\* The tenant a name resolves to by the stated order: for an omitted name
\* the explicit default tenant, else the registered tenant named "default",
\* else none; for a given name that tenant or none.
Resolved(name) ==
    IF name = None
    THEN IF TenantsHas(defaultTenant) THEN tenants[defaultTenant]
         ELSE IF TenantsHas("default") THEN tenants["default"]
         ELSE NoTenant
    ELSE IF TenantsHas(name) THEN tenants[name]
    ELSE NoTenant

\* C16 (as claimed): after the load and any addTenant, removeTenant and
\* setDefaultTenant calls, getTenant and getConnectionString resolve an
\* omitted name to the explicit default tenant, else the tenant named
\* "default", else absent, and a given name to exactly that tenant or absent.
C16_Resolution ==
    tmPc = "loaded" =>
        \A name \in NameArgs :
            /\ getTenant(name) = Resolved(name)
            /\ getConnectionString(name, "serverless") =
                   IF Resolved(name) = NoTenant THEN None
                   ELSE Find(Resolved(name).sqlPools, "serverless")

\* The part of C16 that holds: the stated order for non-empty names, while
\* the explicit default names a registered tenant or is unset.
C16_ResolutionOfRegisteredDefault ==
    tmPc = "loaded" /\ (defaultTenant = Null \/ TenantsHas(defaultTenant))
                   /\ defaultTenant # "" =>
        \A name \in NameArgs \ {""} : getTenant(name) = Resolved(name)

\* C18 (as claimed): a tenant named "default" that the structured source
\* defines is the registered "default" tenant after the load.
C18_FileDefaultKept ==
    [][tmPc = "new" /\ tmPc' = "loaded"
          /\ LoadedFromFile(configFile).tenants["default"] # NoTenant
          => tenants'["default"] = LoadedFromFile(configFile).tenants["default"]]_vars

(***************************************************************************)
(* Properties: retryOperation                                              *)
(***************************************************************************)
\* An error that carries an HTTP-like status in [400,500).
ClientError(error) == error.statusCode >= 400 /\ error.statusCode < 500

Failure(outcome) == outcome # OkOutcome

\* C5: a failure with a status in [400,500) is the last invocation: no
\* further invocation, no sleep after it, and that error is raised; when it
\* is the first failure the operation was invoked exactly once.
C5_ClientErrorNotRetried ==
    \A i \in 1..Len(rOutcomes) :
        Failure(rOutcomes[i]) /\ ClientError(rOutcomes[i]) =>
            /\ i = Len(rOutcomes)
            /\ rInvocations = i
            /\ Len(rSleeps) = i - 1
            /\ rPc = "thrown"
            /\ rRaised = rOutcomes[i]

C5_Witness ==
    /\ rPc = "thrown"
    /\ rMaxRetries = DefaultMaxRetries
    /\ rOutcomes = <<[cls |-> "SynapseApiError", statusCode |-> 404]>>
    /\ rInvocations = 1
    /\ rSleeps = <<>>

\* C6: an operation that succeeds on its Nth invocation (N <= maxRetries + 1)
\* after N-1 transient failures makes retryOperation return that result
\* after exactly N invocations, the i-th sleep being baseDelay * 2^(i-1).
C6_BackoffThenSuccess ==
    /\ rOutcomes # <<>> /\ rOutcomes[Len(rOutcomes)] = OkOutcome
           => /\ rPc = "returned"
              /\ rResult = Len(rOutcomes)
              /\ rInvocations = Len(rOutcomes)
              /\ Len(rOutcomes) <= rMaxRetries + 1
              /\ Len(rSleeps) = Len(rOutcomes) - 1
    /\ \A i \in 1..Len(rSleeps) : rSleeps[i] = rBaseDelay * 2^(i - 1)

C6_Witness ==
    /\ rPc = "returned"
    /\ rMaxRetries = DefaultMaxRetries
    /\ rInvocations = 4
    /\ rSleeps = <<1000, 2000, 4000>>

AllTransient ==
    /\ rOutcomes # <<>>
    /\ \A i \in 1..Len(rOutcomes) :
           Failure(rOutcomes[i]) /\ ~ClientError(rOutcomes[i])

C7_Bounded ==
    /\ rInvocations <= rMaxRetries + 1
    /\ rPc = "sleeping" => rInvocations <= rMaxRetries
    /\ RetryDone /\ AllTransient
           => /\ rPc = "thrown"
              /\ rInvocations = rMaxRetries + 1
              /\ Len(rSleeps) = rMaxRetries
              /\ rRaised = rOutcomes[Len(rOutcomes)]

\* C7: the operation is never invoked more than maxRetries + 1 times and no
\* sleep follows the final attempt; when every invocation fails with a
\* transient error it is invoked exactly maxRetries + 1 times and the last
\* error is raised; and retryOperation terminates when every invocation
\* settles.
C7_Exhaustion == []C7_Bounded /\ <>RetryDone

C7_Witness ==
    /\ rPc = "thrown"
    /\ AllTransient
    /\ rMaxRetries = DefaultMaxRetries
    /\ rInvocations = 4
    /\ Len(rSleeps) = 3

(***************************************************************************)
(* Properties: token cache                                                 *)
(***************************************************************************)
Acquirers == { c \in AuthCallIds : aCalls[c].acquired }

\* C8: a call invokes the credential exactly when no valid cached token
\* exists as it is made (for refreshToken: after it dropped the cache, so
\* always); acquisitions are counted once per such call.
C8_AcquireIffNoValidToken ==
    /\ \A c \in AuthCallIds :
           aCalls[c].pc # "idle" =>
               /\ aCalls[c].acquired <=> ~aCalls[c].validAtCall
               /\ aCalls[c].op = "refreshToken" => aCalls[c].acquired
    /\ acquisitions = Cardinality(Acquirers)

\* Two calls, one acquisition: the second was served the first one's token.
C8_Witness ==
    /\ acquisitions = 1
    /\ aCalls[1].pc = "returned" /\ aCalls[1].acquired
    /\ aCalls[2].pc = "returned" /\ aCalls[2].fromCache
    /\ aCalls[2].token = aCalls[1].token

\* C9: a token returned from the cache has a declared expiry more than five
\* minutes after the moment of return.
C9_CachedTokenFresh ==
    \A c \in AuthCallIds :
        aCalls[c].fromCache =>
            /\ aCalls[c].retExp # 0
            /\ aCalls[c].retExp - aCalls[c].retAt > 300000

C9_Witness ==
    \E c \in AuthCallIds :
        /\ aCalls[c].fromCache
        /\ aCalls[c].retAt > 0
        /\ aCalls[c].retExp - aCalls[c].retAt > 300000

\* C10: the step in which an acquisition fails raises AuthenticationError,
\* yields no token and leaves the token cache empty.
C10_FailureClearsCache ==
    [][\A c \in AuthCallIds :
          aCalls[c].pc = "awaiting" /\ aCalls'[c].pc = "failed" =>
              /\ aCalls'[c].error = "AuthenticationError"
              /\ aCalls'[c].token = 0
              /\ cachedToken' = NoToken]_vars

\* A failed call after which the cache is empty although another call had
\* acquired a token.
C10_Witness ==
    /\ aCalls[1].pc = "failed" /\ aCalls[1].error = "AuthenticationError"
    /\ aCalls[2].pc = "returned" /\ aCalls[2].acquired
    /\ cachedToken = NoToken


\* C27 (as claimed): the step in which an acquisition fails leaves a valid
\* token that another call's acquisition has stored in the cache.
C27_FailureKeepsOthersToken ==
    [][\A c \in AuthCallIds :
          (/\ aCalls[c].pc = "awaiting"
           /\ aCalls'[c].pc = "failed"
           /\ ValidCachedToken(cachedToken, aNow)
           /\ cachedToken.token # c) =>
              cachedToken' = cachedToken]_vars

\* C30 (as claimed): once the registry is loaded, and after any sequence of
\* addTenant, removeTenant and setDefaultTenant calls, the tenant map and
\* the credential map have the same keys, and defaultTenant is null or the
\* name of a registered tenant.
C30_RegistryConsistent ==
    tmPc = "loaded" =>
        /\ { n \in TenantNames : tenants[n] # NoTenant }
               = { n \in TenantNames : credentials[n] # NoCredential }
        /\ (defaultTenant = Null \/ TenantsHas(defaultTenant))

\* The same keys in both maps, whatever defaultTenant is.
C30_SameKeys ==
    tmPc = "loaded" =>
        { n \in TenantNames : tenants[n] # NoTenant }
            = { n \in TenantNames : credentials[n] # NoCredential }

\* C21 (as claimed): an SQL operation in which a connection or a statement
\* has failed returns a payload with success false and an error message; it
\* neither raises nor returns a payload with success true.
C21_FailureReported ==
    (sqlOp.pc = "returned" /\ sqlOp.failed) =>
        /\ sqlOp.result.kind = "payload"
        /\ ~sqlOp.result.success
        /\ sqlOp.result.error # None

\* The same for every operation but analyzeTableSchema with includeStats.
C21_FailureReportedWithoutStats ==
    (/\ sqlOp.pc = "returned" /\ sqlOp.failed
     /\ ~(sqlOp.call.name = "analyzeTableSchema" /\ sqlOp.call.includeStats))
        => sqlOp.result = FailurePayload

\* C29 (as claimed): a create, update or execute of manageStoredProcedures
\* that reports success has passed its statement to execSql during the
\* call.
C29_SuccessAfterSubmission ==
    (/\ sqlOp.pc = "returned"
     /\ sqlOp.call.name = "manageStoredProcedures"
     /\ sqlOp.result.success)
        => (lastCall.task = sqlOp.task /\ lastCall.submitted)

\* C28 (as claimed): within one makeRequest call, the attempt whose token
\* acquisition fails is the last one: retryOperation throws without a
\* backoff sleep, and the credential is asked at most once in vain.
C28_AuthFailureNotRetried ==
    /\ [](Cardinality({ c \in AuthCallIds : aCalls[c].pc = "failed" }) <= 1)
    /\ [][\A c \in AuthCallIds :
             (aCalls[c].pc = "awaiting" /\ aCalls'[c].pc = "failed") =>
                 (rPc' = "thrown" /\ rSleeps' = rSleeps)]_vars

====
